---- MODULE Spec2Model ----
(***************************************************************************)
(* A model of Lumina-PDF-Bot's conversation store                          *)
(* (src/src/services/chat_manager.py) and retrieval engine                 *)
(* (src/src/engine/rag_engine.py, vector_store.py,                         *)
(* lightweight_embeddings.py).                                             *)
(*                                                                         *)
(* Part 1 models ChatManager statement by statement: threads call          *)
(* add_message, clear_history and get_statistics; the process may crash.   *)
(* Part 2 models RAGEngine: process_document, query and delete_pdf.        *)
(* Part 3 is the conversation store called by one caller across restarts,  *)
(* Part 4 export_chat, Part 5 the engine called by one caller, call by     *)
(* call, with list_available_documents, search and restarts, Part 6        *)
(* split_text for every chunk size and overlap, Part 7 the upload          *)
(* directory by file name (utils.sanitize_filename).                       *)
(***************************************************************************)
EXTENDS Integers, Sequences, FiniteSets, TLC

\* ------------------------------------------------------------------------
\* Bounds of the model
\* ------------------------------------------------------------------------

\* Calls issued on the conversation store in one behaviour.
MaxCalls == 2

\* Calls issued on the engine in one behaviour.
MaxEngineCalls == 3

\* process_document calls issued in one behaviour of the concurrent-ingest
\* specification.
MaxIngests == 2

\* Mutating calls and restarts in one behaviour of the sequential store
\* specification.
MaxStoreCalls == 3

\* Messages of the log an export is taken of.
MaxLogLen == 2

\* Engine calls and restarts in one behaviour of the sequential engine
\* specification.
MaxLifeCalls == 3

\* Part 6 splits texts of up to MaxTextLen units with chunk sizes up to
\* MaxChunkSize.
MaxTextLen == 4

\* Calls issued in one behaviour of Part 7.
MaxNameCalls == 3

MaxChunkSize == 3

Threads == {"t1", "t2"}
Docs == {"a", "b"}
Roles == {"user"}

\* ------------------------------------------------------------------------
\* Part 1: ChatManager
\* ------------------------------------------------------------------------

VARIABLES
    history,    \* self.history: the dict, as its entries in insertion order
    files,      \* the files beside storage_path: path -> content or Absent
    backups,    \* the .backup_<timestamp> files: set of <<stamp, content>>
    lock,       \* self.lock: "free" or the thread holding it
    clock,      \* datetime.now(): the number of readings so far
    pc,         \* each thread's position in the method it runs
    arg,        \* the arguments of the call each thread runs (or ran last)
    ts,         \* add_message's local `timestamp`
    rd,         \* get_statistics' locals: chat_data (a reference) and the values read
    result,     \* what each thread's last call returned or raised
    ncalls,     \* calls issued so far
    crashed,    \* the process was killed
    preStore,   \* history variable: self.history when the lock was last taken
    preDisk,    \* history variable: the durable file when the lock was last taken
    window,     \* history variable: per reader, the entries of its document that
                \* were in place, before or after a mutation, while it read
    okAdds      \* history variable: the <<pdf, content>> of add_message calls that returned

storeVars == <<history, files, backups, lock, clock, pc, arg, ts, rd, result,
               ncalls, crashed, preStore, preDisk, window, okAdds>>

VARIABLES
    stage,      \* "ready" once ChatManager.__init__ has run, "new" before it runs
    corrupted,  \* the file storage_path.with_suffix('.corrupted')
    last        \* history variable: the last call of the store's one sequential
                \* caller, what it returned, and the store before it

seqVars == <<stage, corrupted, last>>

\* What the threads of Part 1 hold; the sequential caller leaves it alone.
threadVars == <<lock, pc, arg, ts, rd, result, crashed, preStore, preDisk,
                window, okAdds>>

None == "None"

\* Python's None where a timestamp is expected.
NoTime == -1

\* No entry: what self.history.get(pdf_name) would give for an unknown document.
NoEntry == [pdf |-> None, messages |-> <<>>, created_at |-> NoTime, updated_at |-> NoTime]

\* A path with no file, and a file with its text.
Absent == [exists |-> FALSE, text |-> <<>>]

File(text) == [exists |-> TRUE, text |-> text]

\* What json.load raises JSONDecodeError for.
Corrupt == <<[pdf |-> "corrupt", messages |-> <<>>, created_at |-> NoTime, updated_at |-> NoTime]>>

\* self.storage_path and the path _save writes first.
storage_path == "chat_history.json"

temp_path_in_place == storage_path

temp_path == "chat_history.tmp"

Paths == {storage_path, "chat_history.tmp"}

\* ---- the dict self.history -------------------------------------------

\* `pdf_name in self.history`
Has(h, d) == \E i \in 1..Len(h) : h[i].pdf = d

\* self.history[pdf_name], or NoEntry
EntryOf(h, d) ==
    IF Has(h, d) THEN h[CHOOSE i \in 1..Len(h) : h[i].pdf = d] ELSE NoEntry

\* self.history[pdf_name]["messages"], empty for a document without a log
MessagesOf(h, d) == IF Has(h, d) THEN EntryOf(h, d).messages ELSE <<>>

\* list(self.history.keys())
get_all_pdfs(h) == [i \in 1..Len(h) |-> h[i].pdf]

\* self.history[pdf_name] = {"messages": [], "created_at": ..., "updated_at": ...}
NewEntry(h, d, t) ==
    Append(h, [pdf |-> d, messages |-> <<>>, created_at |-> t, updated_at |-> t])

\* the message record of add_message; `metadata or {}`
Message(role, content, t, metadata) ==
    [role |-> role, content |-> content, timestamp |-> t, metadata |-> metadata]

AppendMessage_front(h, d, m) ==
    [i \in 1..Len(h) |->
        IF h[i].pdf = d THEN [h[i] EXCEPT !.messages = <<m>> \o @] ELSE h[i]]

\* self.history[pdf_name]["messages"].append(message)
AppendMessage(h, d, m) ==
    [i \in 1..Len(h) |->
        IF h[i].pdf = d THEN [h[i] EXCEPT !.messages = Append(@, m)] ELSE h[i]]

\* self.history[pdf_name]["updated_at"] = timestamp
SetUpdated(h, d, t) ==
    [i \in 1..Len(h) |->
        IF h[i].pdf = d THEN [h[i] EXCEPT !.updated_at = t] ELSE h[i]]

\* the dict without the key d, the other entries in their order
RECURSIVE WithoutDoc(_, _)
WithoutDoc(h, d) ==
    IF h = <<>> THEN <<>>
    ELSE IF Head(h).pdf = d THEN WithoutDoc(Tail(h), d)
    ELSE <<Head(h)>> \o WithoutDoc(Tail(h), d)

ClearEffect_keeps(h, target) == IF target = None THEN <<>> ELSE h

ClearEffect_specific(h, target) ==
    IF target # None /\ Has(h, target) THEN WithoutDoc(h, target) ELSE h

\* clear_history's mutation: self.history = {} / del self.history[pdf_name]
ClearEffect(h, target) ==
    IF target = None THEN <<>>
    ELSE IF Has(h, target) THEN WithoutDoc(h, target)
    ELSE h

\* ---- the durable file's text ------------------------------------------

\* json.dump(self.history, f): the text as the pieces the encoder writes,
\* an opening brace, one piece per document, a closing brace.
Brace(b) == [tok |-> b, entry |-> NoEntry]

Serialize(h) ==
    <<Brace("{")>> \o [i \in 1..Len(h) |-> [tok |-> "entry", entry |-> h[i]]]
        \o <<Brace("}")>>

\* json.load: the dict of a complete text, Corrupt for anything else
\* (an empty or truncated file raises JSONDecodeError).
Parse(text) ==
    IF Len(text) >= 2 /\ text[1] = Brace("{") /\ text[Len(text)] = Brace("}")
    THEN [i \in 1..(Len(text) - 2) |-> text[i + 1].entry]
    ELSE Corrupt

StatsOf_created(e) ==
    IF e = NoEntry
    THEN [total_messages |-> 0, first_chat |-> NoTime, last_chat |-> NoTime]
    ELSE [total_messages |-> Len(e.messages), first_chat |-> e.created_at,
          last_chat |-> e.created_at]

\* get_statistics' return value for an entry
StatsOf(e) ==
    IF e = NoEntry
    THEN [total_messages |-> 0, first_chat |-> NoTime, last_chat |-> NoTime]
    ELSE [total_messages |-> Len(e.messages), first_chat |-> e.created_at,
          last_chat |-> e.updated_at]

\* What a call gave its caller: nothing yet, a normal return (with the
\* statistics, for get_statistics), or the RuntimeError it raised.
NoResult == [kind |-> "none", stats |-> StatsOf(NoEntry)]

Returned == [kind |-> "returned", stats |-> StatsOf(NoEntry)]

ReturnedStats(s) == [kind |-> "returned", stats |-> s]

Raised == [kind |-> "RuntimeError", stats |-> StatsOf(NoEntry)]

NoRef == [att |-> FALSE, obj |-> NoEntry, n |-> 0]

\* ---- initial state -----------------------------------------------------

StoreInit ==
    /\ history = <<>>
    /\ files = [p \in Paths |-> Absent]
    /\ backups = {}
    /\ lock = "free"
    /\ clock = 0
    /\ pc = [t \in Threads |-> "idle"]
    /\ arg = [t \in Threads |-> [op |-> "none"]]
    /\ ts = [t \in Threads |-> 0]
    /\ rd = [t \in Threads |-> NoRef]
    /\ result = [t \in Threads |-> NoResult]
    /\ ncalls = 0
    /\ crashed = FALSE
    /\ preStore = <<>>
    /\ preDisk = Absent
    /\ window = [t \in Threads |-> {}]
    /\ okAdds = {}

\* The sequential caller has called nothing yet; the store was constructed
\* without a durable file. `built` keeps, per document, the text, the
\* vocabulary and the index of its last successful process_document; `again`
\* tells that a process_document repeats that text after a delete_pdf.
NoLast == [op |-> "none", pdf |-> None, limit |-> 0, msgs |-> <<>>, names |-> <<>>,
           ok |-> TRUE, pre |-> <<>>, preDurable |-> Absent,
           prevop |-> "none", prevpdf |-> None,
           stats |-> StatsOf(NoEntry), format |-> "none", raised |-> "none",
           out |-> <<>>, kind |-> "none", text |-> <<>>, k |-> 0,
           wasFitted |-> FALSE, vector |-> <<>>, results |-> <<>>,
           listing |-> <<>>, again |-> FALSE,
           size |-> 0, overlap |-> 0, chunks |-> <<>>,
           filename |-> [stem |-> <<>>, ext |-> ""],
           built |-> [d \in Docs |->
                         [text |-> <<>>, vocab |-> {},
                          store |-> [vectors |-> <<>>, texts |-> <<>>]]]]

SeqInit == stage = "ready" /\ corrupted = Absent /\ last = NoLast

\* `with self.lock`: the lock can be taken
Acquirable_unlocked == TRUE

Acquirable == lock = "free"

\* The entries of document d a read may see whole: the store as it is when no
\* mutation is under way, the store before the mutation while one is, and the
\* store after it once its in-memory part is complete.
Committed(d) ==
    IF lock = "free" THEN {EntryOf(history, d)}
    ELSE IF pc[lock] \in {"s_open", "s_write", "s_replace", "ret"}
    THEN {EntryOf(preStore, d), EntryOf(history, d)}
    ELSE {EntryOf(preStore, d)}

\* The readers' windows once a mutation's in-memory part is complete.
Commit(h) ==
    [t \in Threads |->
        IF pc[t] \in {"r_check", "r_ref", "r_len", "r_upd"}
        THEN window[t] \cup {EntryOf(h, arg[t].pdf)}
        ELSE window[t]]

\* ---- add_message -------------------------------------------------------

CallAdd(t) ==
    /\ ~crashed /\ pc[t] = "idle" /\ ncalls < MaxCalls
    /\ \E d \in Docs, r \in Roles :
        arg' = [arg EXCEPT ![t] =
                   [op |-> "add", pdf |-> d, role |-> r, content |-> ncalls + 1]]
    /\ ncalls' = ncalls + 1
    /\ pc' = [pc EXCEPT ![t] = "a_lock"]
    /\ result' = [result EXCEPT ![t] = NoResult]
    /\ UNCHANGED <<history, files, backups, lock, clock, ts, rd, crashed,
                   preStore, preDisk, window, okAdds>>

\* with self.lock: timestamp = datetime.now().isoformat()
AddLock(t) ==
    /\ ~crashed /\ pc[t] = "a_lock" /\ Acquirable
    /\ lock' = t
    /\ ts' = [ts EXCEPT ![t] = clock]
    /\ clock' = clock + 1
    /\ pc' = [pc EXCEPT ![t] = "a_init"]
    /\ preStore' = history
    /\ preDisk' = files[storage_path]
    /\ UNCHANGED <<history, files, backups, arg, rd, result, ncalls, crashed,
                   window, okAdds>>

\* if pdf_name not in self.history: self.history[pdf_name] = {...}
AddInit(t) ==
    /\ ~crashed /\ pc[t] = "a_init"
    /\ history' = IF Has(history, arg[t].pdf) THEN history
                  ELSE NewEntry(history, arg[t].pdf, ts[t])
    /\ rd' = rd
    /\ pc' = [pc EXCEPT ![t] = "a_append"]
    /\ UNCHANGED <<files, backups, lock, clock, arg, ts, result, ncalls,
                   crashed, preStore, preDisk, window, okAdds>>

\* self.history[pdf_name]["messages"].append(message)
AddAppend(t) ==
    /\ ~crashed /\ pc[t] = "a_append"
    /\ history' = AppendMessage(history, arg[t].pdf,
                      Message(arg[t].role, arg[t].content, ts[t], <<>>))
    /\ pc' = [pc EXCEPT ![t] = "a_upd"]
    /\ UNCHANGED <<files, backups, lock, clock, arg, ts, rd, result, ncalls,
                   crashed, preStore, preDisk, window, okAdds>>

\* self.history[pdf_name]["updated_at"] = timestamp
AddUpd(t) ==
    /\ ~crashed /\ pc[t] = "a_upd"
    /\ history' = SetUpdated(history, arg[t].pdf, ts[t])
    /\ window' = Commit(history')
    /\ pc' = [pc EXCEPT ![t] = "s_open"]
    /\ UNCHANGED <<files, backups, lock, clock, arg, ts, rd, result, ncalls,
                   crashed, preStore, preDisk, okAdds>>

\* ---- _save ---------------------------------------------------------------

\* with open(temp_path, 'w') as f: the file is created or truncated
SaveOpen(t) ==
    /\ ~crashed /\ pc[t] = "s_open"
    /\ files' = [files EXCEPT ![temp_path] = File(<<>>)]
    /\ pc' = [pc EXCEPT ![t] = "s_write"]
    /\ UNCHANGED <<history, backups, lock, clock, arg, ts, rd, result, ncalls,
                   crashed, preStore, preDisk, window, okAdds>>

\* json.dump(self.history, f, ...): one more piece reaches the file
SaveWrite(t) ==
    /\ ~crashed /\ pc[t] = "s_write"
    /\ files[temp_path].exists
    /\ Len(files[temp_path].text) < Len(Serialize(history))
    /\ LET text == Serialize(history)
           k == Len(files[temp_path].text) + 1
       IN /\ files' = [files EXCEPT ![temp_path] = File(Append(@.text, text[k]))]
          /\ pc' = [pc EXCEPT ![t] = IF k = Len(text) THEN "s_replace" ELSE "s_write"]
    /\ UNCHANGED <<history, backups, lock, clock, arg, ts, rd, result, ncalls,
                   crashed, preStore, preDisk, window, okAdds>>

\* temp_path.replace(self.storage_path)
SaveReplace(t) ==
    /\ ~crashed /\ pc[t] = "s_replace"
    /\ files' = [p \in Paths |->
                    IF p = storage_path THEN files[temp_path]
                    ELSE IF p = temp_path THEN Absent
                    ELSE files[p]]
    /\ pc' = [pc EXCEPT ![t] = "ret"]
    /\ UNCHANGED <<history, backups, lock, clock, arg, ts, rd, result, ncalls,
                   crashed, preStore, preDisk, window, okAdds>>

SaveFail_swallowed(t) ==
    /\ ~crashed /\ pc[t] \in {"s_open", "s_write", "s_replace"}
    /\ lock' = "free"
    /\ result' = [result EXCEPT ![t] = Returned]
    /\ pc' = [pc EXCEPT ![t] = "idle"]
    /\ UNCHANGED <<history, files, backups, clock, arg, ts, rd, ncalls, crashed,
                   preStore, preDisk, window, okAdds>>

\* An I/O error in _save: the temp file is unlinked if it exists and
\* RuntimeError propagates through the caller's `with self.lock` (released)
\* and its except clause (re-raised).
SaveFail(t) ==
    /\ ~crashed /\ pc[t] \in {"s_open", "s_write", "s_replace"}
    /\ files' = [files EXCEPT ![temp_path] = Absent]
    /\ lock' = "free"
    /\ result' = [result EXCEPT ![t] = Raised]
    /\ pc' = [pc EXCEPT ![t] = "idle"]
    /\ UNCHANGED <<history, backups, clock, arg, ts, rd, ncalls, crashed,
                   preStore, preDisk, window, okAdds>>

\* the end of `with self.lock`: the call returns None
Ret(t) ==
    /\ ~crashed /\ pc[t] = "ret"
    /\ lock' = "free"
    /\ result' = [result EXCEPT ![t] = Returned]
    /\ okAdds' = IF arg[t].op = "add"
                 THEN okAdds \cup {<<arg[t].pdf, arg[t].content>>}
                 ELSE okAdds
    /\ pc' = [pc EXCEPT ![t] = "idle"]
    /\ UNCHANGED <<history, files, backups, clock, arg, ts, rd, ncalls, crashed,
                   preStore, preDisk, window>>

\* ---- clear_history -------------------------------------------------------

CallClear(t) ==
    /\ ~crashed /\ pc[t] = "idle" /\ ncalls < MaxCalls
    /\ \E d \in Docs \cup {None} :
        arg' = [arg EXCEPT ![t] = [op |-> "clear", pdf |-> d]]
    /\ ncalls' = ncalls + 1
    /\ pc' = [pc EXCEPT ![t] = "c_lock"]
    /\ result' = [result EXCEPT ![t] = NoResult]
    /\ UNCHANGED <<history, files, backups, lock, clock, ts, rd, crashed,
                   preStore, preDisk, window, okAdds>>

ClearLock(t) ==
    /\ ~crashed /\ pc[t] = "c_lock" /\ Acquirable
    /\ lock' = t
    /\ pc' = [pc EXCEPT ![t] = "c_backup"]
    /\ preStore' = history
    /\ preDisk' = files[storage_path]
    /\ UNCHANGED <<history, files, backups, clock, arg, ts, rd, result, ncalls,
                   crashed, window, okAdds>>

\* _create_backup: shutil.copy2(storage_path, storage_path.backup_<now>) when
\* the durable file exists; `ok` is whether the copy succeeds (a failure is
\* swallowed).
CreateBackup(ok) ==
    IF ~files[storage_path].exists THEN backups' = backups /\ clock' = clock
    ELSE /\ clock' = clock + 1
         /\ backups' = IF ok
                       THEN {b \in backups : b[1] # clock}
                                \cup {<<clock, files[storage_path].text>>}
                       ELSE backups

ClearBackup_late(t) ==
    /\ ~crashed /\ pc[t] = "c_backup"
    /\ \E ok \in BOOLEAN : CreateBackup(ok)
    /\ history' = ClearEffect(history, arg[t].pdf)
    /\ pc' = [pc EXCEPT ![t] = "c_mutate"]
    /\ UNCHANGED <<files, lock, arg, ts, rd, result, ncalls, crashed,
                   preStore, preDisk, window, okAdds>>

ClearBackup_aborts(t) ==
    /\ ~crashed /\ pc[t] = "c_backup"
    /\ \E ok \in BOOLEAN :
        /\ CreateBackup(ok)
        /\ IF ok THEN pc' = [pc EXCEPT ![t] = "c_mutate"] /\ UNCHANGED <<lock, result>>
           ELSE /\ pc' = [pc EXCEPT ![t] = "idle"]
                /\ lock' = "free"
                /\ result' = [result EXCEPT ![t] = Raised]
    /\ UNCHANGED <<history, files, arg, ts, rd, ncalls, crashed,
                   preStore, preDisk, window, okAdds>>

ClearBackup(t) ==
    /\ ~crashed /\ pc[t] = "c_backup"
    /\ \E ok \in BOOLEAN : CreateBackup(ok)
    /\ pc' = [pc EXCEPT ![t] = "c_mutate"]
    /\ UNCHANGED <<history, files, lock, arg, ts, rd, result, ncalls, crashed,
                   preStore, preDisk, window, okAdds>>

\* self.history = {} / del self.history[pdf_name]. A reader holding a
\* reference to a removed entry keeps the object as it was.
ClearMutate(t) ==
    /\ ~crashed /\ pc[t] = "c_mutate"
    /\ history' = ClearEffect(history, arg[t].pdf)
    /\ rd' = [u \in Threads |->
                IF rd[u].att /\ ~Has(history', arg[u].pdf)
                THEN [rd[u] EXCEPT !.att = FALSE, !.obj = EntryOf(history, arg[u].pdf)]
                ELSE rd[u]]
    /\ window' = Commit(history')
    /\ pc' = [pc EXCEPT ![t] = "s_open"]
    /\ UNCHANGED <<files, backups, lock, clock, arg, ts, result, ncalls,
                   crashed, preStore, preDisk, okAdds>>

\* ---- get_statistics (takes no lock) ---------------------------------------

CallStats(t) ==
    /\ ~crashed /\ pc[t] = "idle" /\ ncalls < MaxCalls
    /\ \E d \in Docs :
        /\ arg' = [arg EXCEPT ![t] = [op |-> "stats", pdf |-> d]]
        /\ window' = [window EXCEPT ![t] = Committed(d)]
    /\ ncalls' = ncalls + 1
    /\ pc' = [pc EXCEPT ![t] = "r_check"]
    /\ rd' = [rd EXCEPT ![t] = NoRef]
    /\ result' = [result EXCEPT ![t] = NoResult]
    /\ UNCHANGED <<history, files, backups, lock, clock, ts, crashed,
                   preStore, preDisk, okAdds>>

\* if pdf_name not in self.history: return {0, None, None}
StatsCheck(t) ==
    /\ ~crashed /\ pc[t] = "r_check"
    /\ IF Has(history, arg[t].pdf)
       THEN pc' = [pc EXCEPT ![t] = "r_ref"] /\ result' = result
       ELSE /\ pc' = [pc EXCEPT ![t] = "idle"]
            /\ result' = [result EXCEPT ![t] = ReturnedStats(StatsOf(NoEntry))]
    /\ UNCHANGED <<history, files, backups, lock, clock, arg, ts, rd, ncalls,
                   crashed, preStore, preDisk, window, okAdds>>

\* chat_data = self.history[pdf_name]; messages = chat_data["messages"]
\* (KeyError, caught, when the entry was deleted since the check)
StatsRef(t) ==
    /\ ~crashed /\ pc[t] = "r_ref"
    /\ IF Has(history, arg[t].pdf)
       THEN /\ rd' = [rd EXCEPT ![t] = [att |-> TRUE, obj |-> NoEntry, n |-> 0]]
            /\ pc' = [pc EXCEPT ![t] = "r_len"]
            /\ result' = result
       ELSE /\ rd' = rd
            /\ pc' = [pc EXCEPT ![t] = "idle"]
            /\ result' = [result EXCEPT ![t] = ReturnedStats(StatsOf(NoEntry))]
    /\ UNCHANGED <<history, files, backups, lock, clock, arg, ts, ncalls,
                   crashed, preStore, preDisk, window, okAdds>>

\* the object chat_data refers to: the live entry, or the removed one
Deref(t) == IF rd[t].att THEN EntryOf(history, arg[t].pdf) ELSE rd[t].obj

\* "total_messages": len(messages)
StatsLen(t) ==
    /\ ~crashed /\ pc[t] = "r_len"
    /\ rd' = [rd EXCEPT ![t].n = Len(Deref(t).messages)]
    /\ pc' = [pc EXCEPT ![t] = "r_upd"]
    /\ UNCHANGED <<history, files, backups, lock, clock, arg, ts, result,
                   ncalls, crashed, preStore, preDisk, window, okAdds>>

\* "first_chat": chat_data["created_at"], "last_chat": chat_data["updated_at"]
StatsUpd(t) ==
    /\ ~crashed /\ pc[t] = "r_upd"
    /\ result' = [result EXCEPT ![t] = ReturnedStats(
                     [total_messages |-> rd[t].n,
                      first_chat |-> Deref(t).created_at,
                      last_chat |-> Deref(t).updated_at])]
    /\ rd' = [rd EXCEPT ![t] = NoRef]
    /\ pc' = [pc EXCEPT ![t] = "idle"]
    /\ UNCHANGED <<history, files, backups, lock, clock, arg, ts, ncalls,
                   crashed, preStore, preDisk, window, okAdds>>

\* ---- the process is killed -----------------------------------------------

\* Every thread stops where it is and its locals are gone; the files stay as
\* they are. history is kept as the store the interrupted call was persisting.

Crash ==
    /\ ~crashed
    /\ \E t \in Threads : pc[t] # "idle"
    /\ crashed' = TRUE
    /\ pc' = [t \in Threads |-> "idle"]
    /\ arg' = [t \in Threads |-> [op |-> "none"]]
    /\ ts' = [t \in Threads |-> 0]
    /\ rd' = [t \in Threads |-> NoRef]
    /\ result' = [t \in Threads |-> NoResult]
    /\ window' = [t \in Threads |-> {}]
    /\ okAdds' = {}
    /\ ncalls' = 0
    /\ clock' = 0
    /\ UNCHANGED <<history, files, backups, lock, preStore, preDisk>>

\* ------------------------------------------------------------------------
\* Part 2: the retrieval engine's data
\* ------------------------------------------------------------------------

\* Words of the documents and questions; "the" is one of sklearn's English
\* stop words (stop_words='english').
Terms == {"the", "x", "y", "z"}

StopWords == {"the"}

\* The lexical order of the words.
Ord(w) == CASE w = "the" -> 1 [] w = "x" -> 2 [] w = "y" -> 3 [] w = "z" -> 4

\* Texts a document may hold, as word sequences: no text at all, only a stop
\* word, and two texts with different words.
Texts == {<<>>, <<"the">>, <<"x", "y">>, <<"y", "the", "z">>}

Questions == {<<"x">>, <<"z", "y">>}

\* config.CHUNK_SIZE and config.CHUNK_OVERLAP, scaled down and counted in
\* words (the program's values are 1000 and 200 characters).
CHUNK_SIZE == 2

CHUNK_OVERLAP == 1

\* config.TOP_K_RESULTS
TOP_K_RESULTS == 4

RECURSIVE RecursiveCharacterTextSplitter_gap(_, _, _)
RecursiveCharacterTextSplitter_gap(text, size, overlap) ==
    IF Len(text) = 0 THEN <<>>
    ELSE IF Len(text) <= size THEN <<text>>
    ELSE <<SubSeq(text, 1, size)>>
            \o RecursiveCharacterTextSplitter_gap(
                   SubSeq(text, size - overlap + 2, Len(text)), size, overlap)

\* RecursiveCharacterTextSplitter(chunk_size, chunk_overlap).split_text where
\* no separator is left to split at: windows of at most `size` units, each
\* sharing `overlap` units with the one before; no chunk of an empty text.
RECURSIVE RecursiveCharacterTextSplitter(_, _, _)
RecursiveCharacterTextSplitter(text, size, overlap) ==
    IF Len(text) = 0 THEN <<>>
    ELSE IF Len(text) <= size THEN <<text>>
    ELSE <<SubSeq(text, 1, size)>>
            \o RecursiveCharacterTextSplitter(
                   SubSeq(text, size - overlap + 1, Len(text)), size, overlap)

\* self.text_splitter, constructed with config.CHUNK_SIZE and
\* config.CHUNK_OVERLAP
text_splitter(text) == RecursiveCharacterTextSplitter(text, CHUNK_SIZE, CHUNK_OVERLAP)

\* DocumentVectorStore.split_text of a store whose splitter has this size and
\* overlap: `if not chunks: raise ValueError`, raised again as RuntimeError
split_text(text, size, overlap) ==
    LET chunks == RecursiveCharacterTextSplitter(text, size, overlap)
    IN IF chunks = <<>> THEN [raised |-> "RuntimeError", chunks |-> <<>>]
       ELSE [raised |-> "none", chunks |-> chunks]

\* TfidfVectorizer's analyzer (ngram_range=(1, 2)): the stop words are dropped,
\* then every word and every pair of neighbours is a term. A term is the
\* number Ord(first) * 10 + Ord(second), second 0 for a single word, so that
\* numeric order is the terms' lexical order.
RECURSIVE DropStop(_)
DropStop(ws) ==
    IF ws = <<>> THEN <<>>
    ELSE IF Head(ws) \in StopWords THEN DropStop(Tail(ws))
    ELSE <<Head(ws)>> \o DropStop(Tail(ws))

Analyze(ws) ==
    LET k == DropStop(ws)
    IN [i \in 1..Len(k) |-> Ord(k[i]) * 10]
         \o [i \in 1..(Len(k) - 1) |-> Ord(k[i]) * 10 + Ord(k[i + 1])]

\* The vocabulary fit_transform builds from the chunks: every term of every chunk.
FitVocabulary(chunks) ==
    UNION {{Analyze(chunks[c])[i] : i \in 1..Len(Analyze(chunks[c]))} : c \in 1..Len(chunks)}

\* The term of column j of a vocabulary (columns are in lexical order).
Column(vocab, j) == CHOOSE g \in vocab : Cardinality({h \in vocab : h <= g}) = j

Count(seq, x) == Cardinality({i \in 1..Len(seq) : seq[i] = x})

\* vectorizer.transform of one text: one count per column of the vocabulary;
\* terms outside the vocabulary are dropped.
Transform(vocab, ws) ==
    [j \in 1..Cardinality(vocab) |-> Count(Analyze(ws), Column(vocab, j))]

TransformAll(vocab, chunks) == [c \in 1..Len(chunks) |-> Transform(vocab, chunks[c])]

\* ---- files of the vector store -----------------------------------------

\* pickle.dump(vectorstore, f): the bytes as two pieces, the payload and the
\* STOP opcode that ends a pickle.
NoStore == [vectors |-> <<>>, texts |-> <<>>]

Pickle_lossy(v) ==
    <<[op |-> "data",
       v |-> [v EXCEPT !.vectors =
                 [c \in 1..Len(v.vectors) |-> [j \in 1..Len(v.vectors[c]) |-> 0]]]],
      [op |-> "stop", v |-> NoStore]>>

Pickle(v) == <<[op |-> "data", v |-> v], [op |-> "stop", v |-> NoStore]>>

\* pickle.load: the object of a complete pickle; anything else raises.
Unpicklable(text) == Len(text) = 2 /\ text[1].op = "data" /\ text[2].op = "stop"

Unpickle(text) == text[1].v

\* VECTOR_STORE_DIR/<doc_name>: whether the directory exists, and its vectors.pkl
NoDir == [dir |-> FALSE, pkl |-> Absent]

\* _validate_vectorstore: the directory exists and holds something
validate_vectorstore(v) == v.dir /\ v.pkl.exists

\* load_vectorstore: None (NoStore) when the directory or the file is missing
\* or the file does not unpickle
load_vectorstore(v) ==
    IF v.dir /\ v.pkl.exists /\ Unpicklable(v.pkl.text)
    THEN Unpickle(v.pkl.text) ELSE NoStore

\* ---- search --------------------------------------------------------------

RECURSIVE SumTo(_, _)
SumTo(f, n) == IF n = 0 THEN 0 ELSE f[n] + SumTo(f, n - 1)

Dot(u, v) == SumTo([j \in 1..Len(u) |-> u[j] * v[j]], Len(u))

\* cosine_similarity(q, u) < cosine_similarity(q, v), compared without roots:
\* cos = dot / (|q| |v|), and 0 for a zero vector.
CosLess(q, u, v) ==
    LET du == Dot(q, u)
        dv == Dot(q, v)
    IN IF Dot(v, v) = 0 \/ dv = 0 THEN FALSE
       ELSE IF Dot(u, u) = 0 \/ du = 0 THEN TRUE
       ELSE du * du * Dot(v, v) < dv * dv * Dot(u, u)

\* np.argsort(similarities)[::-1][:k]: the indices by descending similarity;
\* reversing the ascending order puts the later of two equal rows first.
Before(q, vecs, i, j) ==
    \/ CosLess(q, vecs[j], vecs[i])
    \/ (~CosLess(q, vecs[i], vecs[j]) /\ ~CosLess(q, vecs[j], vecs[i]) /\ i > j)

Rank(q, vecs, i) == 1 + Cardinality({j \in 1..Len(vecs) : j # i /\ Before(q, vecs, j, i)})

top_indices_all(q, vecs, k) ==
    [r \in 1..Len(vecs) |-> CHOOSE i \in 1..Len(vecs) : Rank(q, vecs, i) = r]

top_indices(q, vecs, k) ==
    LET n == IF k < Len(vecs) THEN k ELSE Len(vecs)
    IN [r \in 1..n |-> CHOOSE i \in 1..Len(vecs) : Rank(q, vecs, i) = r]

\* search: the texts of the top k rows. cosine_similarity raises when the
\* query vector and the stored rows differ in width.
SearchFails(fitted, vocab, store) ==
    \/ ~fitted
    \/ \E c \in 1..Len(store.vectors) : Len(store.vectors[c]) # Cardinality(vocab)

search(vocab, question, store, k) ==
    LET idx == top_indices(Transform(vocab, question), store.vectors, k)
    IN [r \in 1..Len(idx) |-> store.texts[idx[r]]]

\* similarities[idx]: the cosine of the query vector and a stored row, kept
\* exact as its parts: cos = dot / sqrt(qq * vv), and 0 when qq * vv = 0.
cosine_similarity(q, v) == [dot |-> Dot(q, v), qq |-> Dot(q, q), vv |-> Dot(v, v)]

\* search's return value: per top index the pair (doc, score), doc.page_content
\* being texts[idx] and score being float(similarities[idx])
search_results(vocab, question, store, k) ==
    LET q == Transform(vocab, question)
        idx == top_indices(q, store.vectors, k)
    IN [r \in 1..Len(idx) |->
            [page_content |-> store.texts[idx[r]],
             score |-> cosine_similarity(q, store.vectors[idx[r]])]]

\* ------------------------------------------------------------------------
\* Part 2: RAGEngine
\* ------------------------------------------------------------------------

VARIABLES
    upload,     \* PDF_UPLOAD_DIR: per document, the staged raw file
    vs,         \* VECTOR_STORE_DIR: per document, its directory and vectors.pkl
    fitted,     \* LightweightEmbeddings.is_fitted
    vocabulary, \* the vectorizer's vocabulary_
    cache,      \* DocumentVectorStore.vectors / .texts
    epc,        \* each engine thread's position
    earg,       \* the arguments of the engine call each thread runs (or ran last)
    loc,        \* the call's locals
    eres,       \* what each thread's last engine call returned
    ecalls,     \* engine calls issued so far
    lifecycle,  \* history variable: the document's state by the calls that returned
    snap,       \* history variable: the disk and the store when the call began
    nfits,      \* history variable: how often a vocabulary was fitted
    mtime       \* per document, st_mtime of its staged raw file

engineVars == <<upload, vs, fitted, vocabulary, cache, epc, earg, loc, eres,
                ecalls, lifecycle, snap, nfits, mtime>>

\* What the engine's calls leave alone in the conversation store's threads.
storeLocals == <<lock, pc, arg, ts, rd, result, ncalls, crashed, preStore,
                 preDisk, window, okAdds, last, corrupted, stage, mtime>>

Confidences == {"high"}

NoLoc == [text |-> <<>>, chunks |-> <<>>, store |-> NoStore, context |-> <<>>,
          confidence |-> "none", off |-> 0, cause |-> "none"]

NoRes == [kind |-> "none", context |-> <<>>, confidence |-> "none", cause |-> "none"]

\* process_document's results
Success == [kind |-> "success", context |-> <<>>, confidence |-> "none", cause |-> "none"]

IngestError_raw(c) == [kind |-> "raised", context |-> <<>>, confidence |-> "none", cause |-> c]

IngestError(c) == [kind |-> "error", context |-> <<>>, confidence |-> "none", cause |-> c]

\* query's results: "PDF not found or not processed yet.", "Failed to load PDF
\* data.", the answer, and "Error processing question: ..."
NotFound_raises ==
    [kind |-> "query_error", context |-> <<>>, confidence |-> "low", cause |-> "validate"]

NotFound == [kind |-> "not_found", context |-> <<>>, confidence |-> "low", cause |-> "none"]

LoadFailed_raises ==
    [kind |-> "query_error", context |-> <<>>, confidence |-> "low", cause |-> "load"]

LoadFailed == [kind |-> "load_failed", context |-> <<>>, confidence |-> "low", cause |-> "none"]

Answer(context, conf) ==
    [kind |-> "answer", context |-> context, confidence |-> conf, cause |-> "none"]

QueryError(c) == [kind |-> "query_error", context |-> <<>>, confidence |-> "low", cause |-> c]

\* delete_pdf's results
Removed == [kind |-> "True", context |-> <<>>, confidence |-> "none", cause |-> "none"]

NotRemoved(c) == [kind |-> "False", context |-> <<>>, confidence |-> "none", cause |-> c]

Snapshot == [upload |-> upload, vs |-> vs, history |-> history,
             durable |-> files[storage_path]]

NoSnap == [upload |-> [d \in Docs |-> Absent], vs |-> [d \in Docs |-> NoDir],
           history |-> <<>>, durable |-> Absent]

EngineInit ==
    /\ upload = [d \in Docs |-> Absent]
    /\ vs = [d \in Docs |-> NoDir]
    /\ fitted = FALSE
    /\ vocabulary = {}
    /\ cache = NoStore
    /\ epc = [t \in Threads |-> "idle"]
    /\ earg = [t \in Threads |-> [op |-> "none", pdf |-> None, text |-> <<>>]]
    /\ loc = [t \in Threads |-> NoLoc]
    /\ eres = [t \in Threads |-> NoRes]
    /\ ecalls = 0
    /\ lifecycle = [d \in Docs |-> "Unindexed"]
    /\ snap = [t \in Threads |-> NoSnap]
    /\ nfits = 0
    /\ mtime = [d \in Docs |-> 0]

\* Who may run beside whom: nobody else runs; no process_document runs.
Quiet(t) == \A u \in Threads \ {t} : epc[u] = "idle"

NoIngest(t) == \A u \in Threads \ {t} : epc[u] = "idle" \/ earg[u].op # "ingest"

Begin(t, a, at, budget) ==
    /\ epc[t] = "idle" /\ ecalls < budget
    /\ ecalls' = ecalls + 1
    /\ earg' = [earg EXCEPT ![t] = a]
    /\ epc' = [epc EXCEPT ![t] = at]
    /\ loc' = [loc EXCEPT ![t] = NoLoc]
    /\ eres' = [eres EXCEPT ![t] = NoRes]
    /\ snap' = [snap EXCEPT ![t] = Snapshot]
    /\ UNCHANGED <<upload, vs, fitted, vocabulary, cache, lifecycle, nfits>>
    /\ UNCHANGED <<history, files, backups, clock>>
    /\ UNCHANGED storeLocals

Goto(t, at) == epc' = [epc EXCEPT ![t] = at] /\ UNCHANGED <<earg, ecalls, snap>>

\* The call returns r: its locals are gone.
Return(t, r) ==
    /\ epc' = [epc EXCEPT ![t] = "idle"]
    /\ eres' = [eres EXCEPT ![t] = r]
    /\ loc' = [loc EXCEPT ![t] = NoLoc]
    /\ snap' = [snap EXCEPT ![t] = NoSnap]
    /\ UNCHANGED <<earg, ecalls>>

\* raise inside process_document's try: on to its except clause
Raise(t, c) ==
    /\ epc' = [epc EXCEPT ![t] = "p_fail"]
    /\ loc' = [loc EXCEPT ![t].cause = c]
    /\ UNCHANGED <<earg, ecalls, snap, eres>>

\* ---- process_document ------------------------------------------------------

StartIngest(t, docs, texts, budget) ==
    \E d \in docs, x \in texts :
        Begin(t, [op |-> "ingest", pdf |-> d, text |-> x], "p_stage", budget)

\* with open(doc_path, 'wb') as f: f.write(file.read())
PStage(t) ==
    /\ epc[t] = "p_stage"
    /\ upload' = [upload EXCEPT ![earg[t].pdf] = File(earg[t].text)]
    /\ Goto(t, "p_extract")
    /\ UNCHANGED <<vs, fitted, vocabulary, cache, loc, eres, lifecycle, nfits>>
    /\ UNCHANGED <<history, files, backups, clock>>
    /\ UNCHANGED storeLocals

\* text = self.vector_store.load_document(str(doc_path)): raises when the file
\* is gone or holds no text
PExtract(t) ==
    /\ epc[t] = "p_extract"
    /\ LET f == upload[earg[t].pdf]
       IN IF f.exists /\ f.text # <<>>
          THEN /\ loc' = [loc EXCEPT ![t].text = f.text]
               /\ Goto(t, "p_split")
               /\ eres' = eres
          ELSE Raise(t, "load_document")
    /\ UNCHANGED <<upload, vs, fitted, vocabulary, cache, lifecycle, nfits>>
    /\ UNCHANGED <<history, files, backups, clock>>
    /\ UNCHANGED storeLocals

\* chunks = self.vector_store.split_text(text): raises when no chunk comes out
PSplit(t) ==
    /\ epc[t] = "p_split"
    /\ LET chunks == text_splitter(loc[t].text)
       IN IF chunks # <<>>
          THEN /\ loc' = [loc EXCEPT ![t].chunks = chunks]
               /\ Goto(t, "e_check")
               /\ eres' = eres
          ELSE Raise(t, "split_text")
    /\ UNCHANGED <<upload, vs, fitted, vocabulary, cache, lifecycle, nfits>>
    /\ UNCHANGED <<history, files, backups, clock>>
    /\ UNCHANGED storeLocals

\* embed_documents: `if not self.is_fitted`
MustFit_always == TRUE

MustFit == ~fitted

ECheck(t) ==
    /\ epc[t] = "e_check"
    /\ Goto(t, IF MustFit THEN "e_fit" ELSE "e_transform")
    /\ UNCHANGED <<upload, vs, fitted, vocabulary, cache, loc, eres, lifecycle, nfits>>
    /\ UNCHANGED <<history, files, backups, clock>>
    /\ UNCHANGED storeLocals

\* vectors = self.vectorizer.fit_transform(texts): raises ValueError (empty
\* vocabulary) when the texts hold stop words only, and then sets nothing
EFit(t) ==
    /\ epc[t] = "e_fit"
    /\ LET v == FitVocabulary(loc[t].chunks)
       IN IF v # {}
          THEN /\ vocabulary' = v
               /\ nfits' = nfits + 1
               /\ loc' = [loc EXCEPT ![t].store =
                             [vectors |-> TransformAll(v, loc[t].chunks),
                              texts |-> loc[t].chunks]]
               /\ Goto(t, "e_flag")
               /\ eres' = eres
          ELSE /\ Raise(t, "create_embeddings")
               /\ UNCHANGED <<vocabulary, nfits>>
    /\ UNCHANGED <<upload, vs, fitted, cache, lifecycle>>
    /\ UNCHANGED <<history, files, backups, clock>>
    /\ UNCHANGED storeLocals

\* self.is_fitted = True
EFlag(t) ==
    /\ epc[t] = "e_flag"
    /\ fitted' = TRUE
    /\ Goto(t, "e_cache")
    /\ UNCHANGED <<upload, vs, vocabulary, cache, loc, eres, lifecycle, nfits>>
    /\ UNCHANGED <<history, files, backups, clock>>
    /\ UNCHANGED storeLocals

\* vectors = self.vectorizer.transform(texts)
ETransform(t) ==
    /\ epc[t] = "e_transform"
    /\ loc' = [loc EXCEPT ![t].store =
                  [vectors |-> TransformAll(vocabulary, loc[t].chunks),
                   texts |-> loc[t].chunks]]
    /\ Goto(t, "e_cache")
    /\ UNCHANGED <<upload, vs, fitted, vocabulary, cache, eres, lifecycle, nfits>>
    /\ UNCHANGED <<history, files, backups, clock>>
    /\ UNCHANGED storeLocals

\* create_embeddings: self.vectors = vectors; self.texts = chunks
ECache(t) ==
    /\ epc[t] = "e_cache"
    /\ cache' = loc[t].store
    /\ Goto(t, "v_mkdir")
    /\ UNCHANGED <<upload, vs, fitted, vocabulary, loc, eres, lifecycle, nfits>>
    /\ UNCHANGED <<history, files, backups, clock>>
    /\ UNCHANGED storeLocals

\* save_vectorstore: save_path.mkdir(parents=True, exist_ok=True)
VMkdir(t) ==
    /\ epc[t] = "v_mkdir"
    /\ vs' = [vs EXCEPT ![earg[t].pdf].dir = TRUE]
    /\ Goto(t, "v_open")
    /\ UNCHANGED <<upload, fitted, vocabulary, cache, loc, eres, lifecycle, nfits>>
    /\ UNCHANGED <<history, files, backups, clock>>
    /\ UNCHANGED storeLocals

\* open(save_path / "vectors.pkl", "wb"): the file is created or truncated;
\* FileNotFoundError when the directory is gone
VOpen(t) ==
    /\ epc[t] = "v_open"
    /\ IF vs[earg[t].pdf].dir
       THEN /\ vs' = [vs EXCEPT ![earg[t].pdf].pkl = File(<<>>)]
            /\ Goto(t, "v_write")
            /\ UNCHANGED <<loc, eres>>
       ELSE Raise(t, "save_vectorstore") /\ vs' = vs
    /\ UNCHANGED <<upload, fitted, vocabulary, cache, lifecycle, nfits>>
    /\ UNCHANGED <<history, files, backups, clock>>
    /\ UNCHANGED storeLocals

\* A write of one piece at the writer's own offset: a shorter file is padded
\* with a hole, a file unlinked meanwhile takes the bytes with it.
Hole == [op |-> "hole", v |-> NoStore]

WriteAt(f, off, piece) ==
    IF ~f.exists THEN f
    ELSE File([i \in 1..(IF Len(f.text) > off + 1 THEN Len(f.text) ELSE off + 1) |->
                 IF i = off + 1 THEN piece
                 ELSE IF i <= Len(f.text) THEN f.text[i] ELSE Hole])

\* pickle.dump(vectorstore, f)
VWrite(t) ==
    /\ epc[t] = "v_write"
    /\ LET bytes == Pickle(loc[t].store)
           k == loc[t].off + 1
       IN /\ vs' = [vs EXCEPT ![earg[t].pdf].pkl = WriteAt(@, loc[t].off, bytes[k])]
          /\ loc' = [loc EXCEPT ![t].off = k]
          /\ Goto(t, IF k = Len(bytes) THEN "p_return" ELSE "v_write")
    /\ UNCHANGED <<upload, fitted, vocabulary, cache, eres, lifecycle, nfits>>
    /\ UNCHANGED <<history, files, backups, clock>>
    /\ UNCHANGED storeLocals

\* An I/O error while staging the file or saving the vectorstore. When the
\* staging fails, open() has failed and the directory is as it was, or
\* f.write() has failed and the file holds a part of the upload.
IngestIOError(t) ==
    /\ epc[t] \in {"p_stage", "v_mkdir", "v_open", "v_write"}
    /\ Raise(t, IF epc[t] = "p_stage" THEN "open" ELSE "save_vectorstore")
    /\ \/ upload' = upload
       \/ /\ epc[t] = "p_stage"
          /\ \E k \in 0..(Len(earg[t].text) - 1) :
                upload' = [upload EXCEPT ![earg[t].pdf] =
                              File(SubSeq(earg[t].text, 1, k))]
    /\ UNCHANGED <<vs, fitted, vocabulary, cache, lifecycle, nfits>>
    /\ UNCHANGED <<history, files, backups, clock>>
    /\ UNCHANGED storeLocals

\* summary = self.llm_handler.summarize_pdf(text); return {"status": "success", ...}
PReturn(t) ==
    /\ epc[t] = "p_return"
    /\ Return(t, Success)
    /\ lifecycle' = [lifecycle EXCEPT ![earg[t].pdf] = "Indexed"]
    /\ UNCHANGED <<upload, vs, fitted, vocabulary, cache, nfits>>
    /\ UNCHANGED <<history, files, backups, clock>>
    /\ UNCHANGED storeLocals

PFail_keeps(t) ==
    /\ epc[t] = "p_fail"
    /\ upload' = upload
    /\ Return(t, IngestError(loc[t].cause))
    /\ UNCHANGED <<vs, fitted, vocabulary, cache, lifecycle, nfits>>
    /\ UNCHANGED <<history, files, backups, clock>>
    /\ UNCHANGED storeLocals

\* except Exception: if doc_path and doc_path.exists(): doc_path.unlink();
\* return {"status": "error", ...}
PFail(t) ==
    /\ epc[t] = "p_fail"
    /\ upload' = [upload EXCEPT ![earg[t].pdf] = Absent]
    /\ Return(t, IngestError(loc[t].cause))
    /\ UNCHANGED <<vs, fitted, vocabulary, cache, lifecycle, nfits>>
    /\ UNCHANGED <<history, files, backups, clock>>
    /\ UNCHANGED storeLocals

IngestSteps(t) ==
    \/ PStage(t) \/ PExtract(t) \/ PSplit(t) \/ ECheck(t) \/ EFit(t) \/ EFlag(t)
    \/ ETransform(t) \/ ECache(t) \/ VMkdir(t) \/ VOpen(t) \/ VWrite(t)
    \/ PReturn(t) \/ PFail(t)

\* ---- the conversation store as the engine calls it ------------------------

\* add_message's effect on self.history (the statements of AddInit, AddAppend
\* and AddUpd, which run under the lock)
AddEffect(h, d, m, t) ==
    SetUpdated(AppendMessage(IF Has(h, d) THEN h ELSE NewEntry(h, d, t), d, m), d, t)

\* chat_manager.add_message(pdf_name, role, content, metadata) as one step of
\* its caller: the message is appended, then _save succeeds or raises.
add_message(d, role, content, metadata, ok) ==
    /\ history' = AddEffect(history, d, Message(role, content, clock, metadata), clock)
    /\ clock' = clock + 1
    /\ files' = IF ok THEN [files EXCEPT ![storage_path] = File(Serialize(history'))]
                ELSE files
    /\ backups' = backups

\* chat_manager.clear_history(pdf_name) as one step of its caller
clear_history(target, backedUp, ok) ==
    /\ CreateBackup(backedUp)
    /\ history' = ClearEffect(history, target)
    /\ files' = IF ok THEN [files EXCEPT ![storage_path] = File(Serialize(history'))]
                ELSE files

\* ---- query -----------------------------------------------------------------

StartQuery(t, docs) ==
    \E d \in docs, q \in Questions :
        Begin(t, [op |-> "query", pdf |-> d, text |-> q], "q_validate", MaxEngineCalls)

\* if not self._validate_vectorstore(pdf_name): return {... "confidence": "low"}
QValidate(t) ==
    /\ epc[t] = "q_validate"
    /\ IF validate_vectorstore(vs[earg[t].pdf])
       THEN Goto(t, "q_load") /\ UNCHANGED <<eres, loc>>
       ELSE Return(t, NotFound)
    /\ UNCHANGED <<upload, vs, fitted, vocabulary, cache, lifecycle, nfits>>
    /\ UNCHANGED <<history, files, backups, clock>>
    /\ UNCHANGED storeLocals

\* vectorstore = self.vector_store.load_vectorstore(pdf_name);
\* if not vectorstore: return {... "confidence": "low"}
QLoad(t) ==
    /\ epc[t] = "q_load"
    /\ LET store == load_vectorstore(vs[earg[t].pdf])
       IN IF store # NoStore
          THEN /\ loc' = [loc EXCEPT ![t].store = store]
               /\ Goto(t, "q_search")
               /\ eres' = eres
          ELSE Return(t, LoadFailed)
    /\ UNCHANGED <<upload, vs, fitted, vocabulary, cache, lifecycle, nfits>>
    /\ UNCHANGED <<history, files, backups, clock>>
    /\ UNCHANGED storeLocals

QSearch_refits(t) ==
    /\ epc[t] = "q_search"
    /\ IF SearchFails(fitted, vocabulary, loc[t].store)
       THEN Return(t, QueryError("search")) /\ vocabulary' = vocabulary
       ELSE /\ loc' = [loc EXCEPT ![t].context =
                          search(vocabulary, earg[t].text, loc[t].store, TOP_K_RESULTS)]
            /\ vocabulary' = vocabulary \cup FitVocabulary(<<earg[t].text>>)
            /\ Goto(t, "q_answer")
            /\ eres' = eres
    /\ UNCHANGED <<upload, vs, fitted, cache, lifecycle, nfits>>
    /\ UNCHANGED <<history, files, backups, clock>>
    /\ UNCHANGED storeLocals

\* search_results = self.vector_store.search(question, vectorstore, TOP_K_RESULTS);
\* context = self._prepare_context(search_results)
QSearch(t) ==
    /\ epc[t] = "q_search"
    /\ IF SearchFails(fitted, vocabulary, loc[t].store)
       THEN Return(t, QueryError("search"))
       ELSE /\ loc' = [loc EXCEPT ![t].context =
                          search(vocabulary, earg[t].text, loc[t].store, TOP_K_RESULTS)]
            /\ Goto(t, "q_answer")
            /\ eres' = eres
    /\ UNCHANGED <<upload, vs, fitted, vocabulary, cache, lifecycle, nfits>>
    /\ UNCHANGED <<history, files, backups, clock>>
    /\ UNCHANGED storeLocals

\* response = self.llm_handler.generate_answer(question, context): the
\* collaborator's answer, with the confidence it reports
QAnswer(t) ==
    /\ epc[t] = "q_answer"
    /\ \E c \in Confidences : loc' = [loc EXCEPT ![t].confidence = c]
    /\ Goto(t, "q_user")
    /\ UNCHANGED <<upload, vs, fitted, vocabulary, cache, eres, lifecycle, nfits>>
    /\ UNCHANGED <<history, files, backups, clock>>
    /\ UNCHANGED storeLocals

QUser_silent(t, outcomes) ==
    /\ epc[t] = "q_user"
    /\ \E ok \in outcomes :
        /\ UNCHANGED <<history, files, backups, clock>>
        /\ IF ok THEN Goto(t, "q_assistant") /\ UNCHANGED <<eres, loc>>
           ELSE Return(t, QueryError("chat"))
    /\ UNCHANGED <<upload, vs, fitted, vocabulary, cache, lifecycle, nfits>>
    /\ UNCHANGED storeLocals

\* self.chat_manager.add_message(pdf_name, "user", question)
QUser(t, outcomes) ==
    /\ epc[t] = "q_user"
    /\ \E ok \in outcomes :
        /\ add_message(earg[t].pdf, "user", earg[t].text, <<>>, ok)
        /\ IF ok THEN Goto(t, "q_assistant") /\ UNCHANGED <<eres, loc>>
           ELSE Return(t, QueryError("chat"))
    /\ UNCHANGED <<upload, vs, fitted, vocabulary, cache, lifecycle, nfits>>
    /\ UNCHANGED storeLocals

\* self.chat_manager.add_message(pdf_name, "assistant", response["answer"],
\*     {"sources": ..., "confidence": ...}); return {"answer": ..., ...}
QAssistant(t, outcomes) ==
    /\ epc[t] = "q_assistant"
    /\ \E ok \in outcomes :
        /\ add_message(earg[t].pdf, "assistant", loc[t].context,
                       <<loc[t].confidence>>, ok)
        /\ Return(t, IF ok THEN Answer(loc[t].context, loc[t].confidence)
                     ELSE QueryError("chat"))
    /\ UNCHANGED <<upload, vs, fitted, vocabulary, cache, lifecycle, nfits>>
    /\ UNCHANGED storeLocals

QuerySteps(t, outcomes) ==
    \/ QValidate(t) \/ QLoad(t) \/ QSearch(t) \/ QAnswer(t) \/ QUser(t, outcomes)
    \/ QAssistant(t, outcomes)

\* ---- delete_pdf --------------------------------------------------------------

\* A delete_pdf that fails part-way leaves the document in no state of the
\* state machine.
FailedRemove(t) == lifecycle' = [lifecycle EXCEPT ![earg[t].pdf] = "Unknown"]

StartRemove(t, docs) ==
    \E d \in docs :
        Begin(t, [op |-> "remove", pdf |-> d, text |-> <<>>], "d_files", MaxEngineCalls)

\* for pdf_file in glob(f"{pdf_name}.*"): pdf_file.unlink()
DFiles(t) ==
    /\ epc[t] = "d_files"
    /\ upload' = [upload EXCEPT ![earg[t].pdf] = Absent]
    /\ Goto(t, "d_exists")
    /\ UNCHANGED <<vs, fitted, vocabulary, cache, loc, eres, lifecycle, nfits>>
    /\ UNCHANGED <<history, files, backups, clock>>
    /\ UNCHANGED storeLocals

\* if vectorstore_path.exists():
DExists(t) ==
    /\ epc[t] = "d_exists"
    /\ Goto(t, IF vs[earg[t].pdf].dir THEN "d_unlink" ELSE "d_clear")
    /\ UNCHANGED <<upload, vs, fitted, vocabulary, cache, loc, eres, lifecycle, nfits>>
    /\ UNCHANGED <<history, files, backups, clock>>
    /\ UNCHANGED storeLocals

\* shutil.rmtree(vectorstore_path): the directory's files are unlinked ...
\* (it raises when the directory is gone meanwhile)
DUnlink(t) ==
    /\ epc[t] = "d_unlink"
    /\ IF vs[earg[t].pdf].dir
       THEN /\ vs' = [vs EXCEPT ![earg[t].pdf].pkl = Absent]
            /\ Goto(t, "d_rmdir")
            /\ UNCHANGED <<eres, loc, lifecycle>>
       ELSE Return(t, NotRemoved("rmtree")) /\ vs' = vs /\ FailedRemove(t)
    /\ UNCHANGED <<upload, fitted, vocabulary, cache, nfits>>
    /\ UNCHANGED <<history, files, backups, clock>>
    /\ UNCHANGED storeLocals

\* ... and the directory is removed (it raises when the directory is gone or
\* holds a file again)
DRmdir(t) ==
    /\ epc[t] = "d_rmdir"
    /\ IF vs[earg[t].pdf].dir /\ ~vs[earg[t].pdf].pkl.exists
       THEN /\ vs' = [vs EXCEPT ![earg[t].pdf].dir = FALSE]
            /\ Goto(t, "d_clear")
            /\ UNCHANGED <<eres, loc, lifecycle>>
       ELSE Return(t, NotRemoved("rmtree")) /\ vs' = vs /\ FailedRemove(t)
    /\ UNCHANGED <<upload, fitted, vocabulary, cache, nfits>>
    /\ UNCHANGED <<history, files, backups, clock>>
    /\ UNCHANGED storeLocals

\* self.chat_manager.clear_history(pdf_name); return True
\* (except Exception: return False)
DClear(t, outcomes) ==
    /\ epc[t] = "d_clear"
    /\ \E backedUp \in outcomes, ok \in outcomes :
        /\ clear_history(earg[t].pdf, backedUp, ok)
        /\ Return(t, IF ok THEN Removed ELSE NotRemoved("clear_history"))
        /\ lifecycle' = [lifecycle EXCEPT ![earg[t].pdf] =
                                         IF ok THEN "Deleted" ELSE "Unknown"]
    /\ UNCHANGED <<upload, vs, fitted, vocabulary, cache, nfits>>
    /\ UNCHANGED storeLocals

\* An I/O error in unlink or rmtree: delete_pdf returns False.
RemoveIOError(t) ==
    /\ \/ epc[t] = "d_files" /\ upload[earg[t].pdf].exists
       \/ epc[t] \in {"d_unlink", "d_rmdir"}
    /\ Return(t, NotRemoved(IF epc[t] = "d_files" THEN "unlink" ELSE "rmtree"))
    /\ IF epc[t] = "d_files" THEN lifecycle' = lifecycle ELSE FailedRemove(t)
    /\ UNCHANGED <<upload, vs, fitted, vocabulary, cache, nfits>>
    /\ UNCHANGED <<history, files, backups, clock>>
    /\ UNCHANGED storeLocals

RemoveSteps(t, outcomes) ==
    DFiles(t) \/ DExists(t) \/ DUnlink(t) \/ DRmdir(t) \/ DClear(t, outcomes)

AddSteps(t) ==
    \/ AddLock(t) \/ AddInit(t) \/ AddAppend(t) \/ AddUpd(t)
    \/ SaveOpen(t) \/ SaveWrite(t) \/ SaveReplace(t) \/ SaveFail(t) \/ Ret(t)

ClearSteps(t) == ClearLock(t) \/ ClearBackup(t) \/ ClearMutate(t)

StatsSteps(t) == StatsCheck(t) \/ StatsRef(t) \/ StatsLen(t) \/ StatsUpd(t)

vars == <<storeVars, engineVars, seqVars>>

Init == StoreInit /\ EngineInit /\ SeqInit

\* The conversation store under concurrent add_message, clear_history and
\* get_statistics calls, and a crash at any step.
StoreNext ==
    \/ \E t \in Threads :
          CallAdd(t) \/ CallClear(t) \/ CallStats(t)
          \/ AddSteps(t) \/ ClearSteps(t) \/ StatsSteps(t)
    \/ Crash

Next == StoreNext /\ UNCHANGED engineVars /\ UNCHANGED seqVars

Spec == Init /\ [][Next]_vars

\* The store under concurrent add_message calls only.
AppendNext == \E t \in Threads : CallAdd(t) \/ AddSteps(t)

NextAppend == AppendNext /\ UNCHANGED engineVars /\ UNCHANGED seqVars

SpecAppend == Init /\ [][NextAppend]_vars

\* The outcomes of an I/O operation: it succeeds, or it may also fail.
NoFaults == {TRUE}

Faults == {TRUE, FALSE}

\* The texts that pass extraction and fitting.
GoodTexts == {x \in Texts : FitVocabulary(text_splitter(x)) # {}}

\* The engine called by one caller, one call after the other; any I/O
\* operation may fail.
Caller == "t1"

NextSeq ==
    \/ StartIngest(Caller, Docs, Texts, MaxEngineCalls)
    \/ StartQuery(Caller, Docs)
    \/ StartRemove(Caller, Docs)
    \/ IngestSteps(Caller) \/ IngestIOError(Caller)
    \/ QuerySteps(Caller, Faults)
    \/ RemoveSteps(Caller, Faults) \/ RemoveIOError(Caller)

SpecSeq == Init /\ [][NextSeq]_vars

\* The engine under concurrent process_document calls, without I/O errors.
NextIngest ==
    \E t \in Threads :
        StartIngest(t, Docs, GoodTexts \cup {<<>>}, MaxIngests) \/ IngestSteps(t)

SpecIngest == Init /\ [][NextIngest]_vars

\* The engine under concurrent query and delete_pdf calls on one document,
\* without I/O errors; process_document runs alone.
NextRQ ==
    \E t \in Threads :
        \/ (Quiet(t) /\ StartIngest(t, {"a"}, Texts, MaxEngineCalls))
        \/ (NoIngest(t) /\ (StartQuery(t, {"a"}) \/ StartRemove(t, {"a"})))
        \/ IngestSteps(t) \/ QuerySteps(t, NoFaults) \/ RemoveSteps(t, NoFaults)

SpecRQ == Init /\ [][NextRQ]_vars

\* The engine under queries of document a that run beside a
\* process_document of a (one process_document at a time), without I/O errors.
NextRI ==
    \E t \in Threads :
        \/ (NoIngest(t) /\ StartIngest(t, {"a"}, Texts, MaxEngineCalls))
        \/ StartQuery(t, {"a"})
        \/ IngestSteps(t) \/ QuerySteps(t, NoFaults)

SpecRI == Init /\ [][NextRI]_vars

\* ------------------------------------------------------------------------
\* Part 3: the conversation store called by one caller, across restarts
\* ------------------------------------------------------------------------

Min(a, b) == IF a < b THEN a ELSE b

Max(a, b) == IF a > b THEN a ELSE b

\* The limits get_chat_history is called with.
Limits == {-1, 0, 1, 2, 3}

get_chat_history_head(h, d, limit) ==
    IF ~Has(h, d) THEN <<>>
    ELSE IF limit > 0 THEN SubSeq(MessagesOf(h, d), 1, Min(limit, Len(MessagesOf(h, d))))
    ELSE MessagesOf(h, d)

\* get_chat_history: [] for an unknown document; messages[-limit:] when
\* limit > 0 (the slice starts at max(len - limit, 0)), else messages
get_chat_history(h, d, limit) ==
    IF ~Has(h, d) THEN <<>>
    ELSE IF limit > 0
    THEN SubSeq(MessagesOf(h, d), Max(Len(MessagesOf(h, d)) - limit, 0) + 1,
                Len(MessagesOf(h, d)))
    ELSE MessagesOf(h, d)

\* _load_history: self.history after it: the parsed file, {} when there is no
\* file or json.load raised
load_history(f) ==
    IF f.exists /\ Parse(f.text) # Corrupt THEN Parse(f.text) ELSE <<>>

corrupted_copy_none(f, old) == old

\* _load_history's except clause: shutil.copy2(storage_path, '.corrupted')
\* when the file exists; `old` is the .corrupted file so far
corrupted_copy(f, old) ==
    IF f.exists /\ Parse(f.text) = Corrupt THEN f ELSE old

\* The record of a call: what was called, on the store as it is now.
Called(op, d) ==
    [NoLast EXCEPT !.op = op, !.pdf = d, !.pre = history,
                   !.preDurable = files[storage_path],
                   !.prevop = last.op, !.prevpdf = last.pdf,
                   !.built = last.built]

\* add_message(d, "user", content) by the caller; it returns or raises (ok)
SAppend ==
    /\ stage = "ready" /\ ncalls < MaxStoreCalls
    /\ \E d \in Docs, ok \in Faults :
        /\ add_message(d, "user", ncalls + 1, <<>>, ok)
        /\ last' = [Called("append", d) EXCEPT !.ok = ok]
    /\ ncalls' = ncalls + 1
    /\ UNCHANGED <<stage, corrupted>>
    /\ UNCHANGED threadVars
    /\ UNCHANGED engineVars

\* clear_history(d) or clear_history(None)
SClear ==
    /\ stage = "ready" /\ ncalls < MaxStoreCalls
    /\ \E d \in Docs \cup {None}, backedUp \in Faults, ok \in Faults :
        /\ clear_history(d, backedUp, ok)
        /\ last' = [Called("clear", d) EXCEPT !.ok = ok]
    /\ ncalls' = ncalls + 1
    /\ UNCHANGED <<stage, corrupted>>
    /\ UNCHANGED threadVars
    /\ UNCHANGED engineVars

\* get_chat_history(d, limit)
SHistory ==
    /\ stage = "ready"
    /\ \E d \in Docs, limit \in Limits :
        last' = [Called("history", d) EXCEPT
                    !.limit = limit, !.msgs = get_chat_history(history, d, limit)]
    /\ UNCHANGED <<stage, corrupted, ncalls>>
    /\ UNCHANGED <<history, files, backups, clock>>
    /\ UNCHANGED threadVars
    /\ UNCHANGED engineVars

\* get_all_pdfs()
SGetAll ==
    /\ stage = "ready"
    /\ last' = [Called("get_all", None) EXCEPT !.names = get_all_pdfs(history)]
    /\ UNCHANGED <<stage, corrupted, ncalls>>
    /\ UNCHANGED <<history, files, backups, clock>>
    /\ UNCHANGED threadVars
    /\ UNCHANGED engineVars

\* get_statistics(d)
SStats ==
    /\ stage = "ready"
    /\ \E d \in Docs :
        last' = [Called("stats", d) EXCEPT !.stats = StatsOf(EntryOf(history, d))]
    /\ UNCHANGED <<stage, corrupted, ncalls>>
    /\ UNCHANGED <<history, files, backups, clock>>
    /\ UNCHANGED threadVars
    /\ UNCHANGED engineVars

\* The process ends, between calls: the in-memory store is gone, the files stay.
Restart ==
    /\ stage = "ready" /\ ncalls < MaxStoreCalls
    /\ stage' = "new"
    /\ history' = <<>>
    /\ last' = Called("restart", None)
    /\ ncalls' = ncalls + 1
    /\ UNCHANGED <<corrupted, files, backups, clock>>
    /\ UNCHANGED threadVars
    /\ UNCHANGED engineVars

\* While the process is down the durable file is damaged: it is cut short.
Damage ==
    /\ stage = "new"
    /\ files[storage_path].exists /\ Parse(files[storage_path].text) # Corrupt
    /\ \E k \in 0..(Len(files[storage_path].text) - 1) :
        files' = [files EXCEPT ![storage_path] = File(SubSeq(@.text, 1, k))]
    /\ UNCHANGED <<stage, corrupted, last, ncalls, history, backups, clock>>
    /\ UNCHANGED threadVars
    /\ UNCHANGED engineVars

\* ChatManager(): self.history = {}; self._load_history()
LoadHistory ==
    /\ stage = "new"
    /\ history' = load_history(files[storage_path])
    /\ corrupted' = corrupted_copy(files[storage_path], corrupted)
    /\ stage' = "ready"
    /\ last' = Called("load", None)
    /\ UNCHANGED <<ncalls, files, backups, clock>>
    /\ UNCHANGED threadVars
    /\ UNCHANGED engineVars

NextStore ==
    \/ SAppend \/ SClear \/ SHistory \/ SGetAll \/ SStats
    \/ Restart \/ Damage \/ LoadHistory

SpecStore == Init /\ [][NextStore]_vars

\* ------------------------------------------------------------------------
\* Part 4: export_chat
\* ------------------------------------------------------------------------

\* The characters of a message's content that matter to an export, and an
\* ordinary one.
Quote == "\""

Comma == ","

Newline == "\n"

Backslash == "\\"

\* The contents of the messages of an exported log, as character sequences.
Contents ==
    {<<"h">>, <<Comma>>, <<Quote>>, <<Newline>>, <<"h", Comma, "h">>,
     <<Quote, "h", Quote>>, <<"h", Newline, "h">>, <<Quote, Comma, Newline>>}

\* The formats export_chat is called with.
Formats == {"json", "csv", "CSV", "xml"}

\* format.lower()
Lower(f) == IF f = "CSV" THEN "csv" ELSE f

EscapeQuotes_none(c) == c

\* msg["content"].replace('"', '""')
RECURSIVE EscapeQuotes(_)
EscapeQuotes(c) ==
    IF c = <<>> THEN <<>>
    ELSE (IF Head(c) = Quote THEN <<Quote, Quote>> ELSE <<Head(c)>>)
            \o EscapeQuotes(Tail(c))

\* f'"{msg["role"]}","{content}","{msg["timestamp"]}"': the role and the
\* timestamp are one token each, the content is its characters
CsvRow(m) ==
    <<Quote, m.role, Quote, Comma, Quote>> \o EscapeQuotes(m.content)
        \o <<Quote, Comma, Quote, ToString(m.timestamp), Quote>>

\* "Role,Content,Timestamp"
CsvHeader == <<"Role", Comma, "Content", Comma, "Timestamp">>

\* sep.join(lines)
RECURSIVE Join(_, _)
Join(lines, sep) ==
    IF lines = <<>> THEN <<>>
    ELSE IF Len(lines) = 1 THEN lines[1]
    ELSE lines[1] \o <<sep>> \o Join(Tail(lines), sep)

\* json.dumps of a string: quotes and newlines are escaped
RECURSIVE JsonString(_)
JsonString(c) ==
    IF c = <<>> THEN <<>>
    ELSE (IF Head(c) = Quote THEN <<Backslash, Quote>>
          ELSE IF Head(c) = Newline THEN <<Backslash, "n">>
          ELSE <<Head(c)>>) \o JsonString(Tail(c))

JsonMessage(m) ==
    <<"{", "role", Quote, m.role, Quote, "content", Quote>> \o JsonString(m.content)
        \o <<Quote, "timestamp", ToString(m.timestamp), "}">>

\* json.dumps(chat_data, indent=2)
json_dumps(e) ==
    <<"{", "messages", "[">>
        \o Join([i \in 1..Len(e.messages) |-> JsonMessage(e.messages[i])], Comma)
        \o <<"]", "created_at", ToString(e.created_at),
             "updated_at", ToString(e.updated_at), "}">>

\* What export_chat gives its caller: the string it returns, or the exception
\* it raises. The whole body is inside try / except Exception, whose handler
\* returns f"Export error: {e}", so the ValueError of an unsupported format
\* comes back as a string.
Exported(out) == [raised |-> "none", out |-> out]

export_chat(h, d, format) ==
    IF ~Has(h, d) THEN Exported(<<"No chat history found">>)
    ELSE IF Lower(format) = "json" THEN Exported(json_dumps(EntryOf(h, d)))
    ELSE IF Lower(format) = "csv"
    THEN Exported(Join(<<CsvHeader>> \o [i \in 1..Len(MessagesOf(h, d)) |->
                                            CsvRow(MessagesOf(h, d)[i])], Newline))
    ELSE Exported(<<"Export error: ", "Unsupported format: ", format>>)

\* The logs an export is taken of: up to MaxLogLen messages of document "a",
\* appended in turn by the user and the assistant, and persisted.
ExportLogs == UNION {[1..n -> Contents] : n \in 0..MaxLogLen}

LogOf(cs) ==
    [i \in 1..Len(cs) |->
        Message(IF i % 2 = 1 THEN "user" ELSE "assistant", cs[i], i - 1, <<>>)]

StoreWith(cs) ==
    IF Len(cs) = 0 THEN <<>>
    ELSE <<[pdf |-> "a", messages |-> LogOf(cs), created_at |-> 0,
            updated_at |-> Len(cs) - 1]>>

ExportInit ==
    /\ \E cs \in ExportLogs :
        /\ history = StoreWith(cs)
        /\ files = [p \in Paths |->
                       IF p = storage_path /\ Len(cs) > 0
                       THEN File(Serialize(StoreWith(cs))) ELSE Absent]
        /\ clock = Len(cs)
    /\ backups = {}
    /\ lock = "free"
    /\ pc = [t \in Threads |-> "idle"]
    /\ arg = [t \in Threads |-> [op |-> "none"]]
    /\ ts = [t \in Threads |-> 0]
    /\ rd = [t \in Threads |-> NoRef]
    /\ result = [t \in Threads |-> NoResult]
    /\ ncalls = 0
    /\ crashed = FALSE
    /\ preStore = <<>>
    /\ preDisk = Absent
    /\ window = [t \in Threads |-> {}]
    /\ okAdds = {}
    /\ EngineInit
    /\ SeqInit

\* export_chat(d, format)
SExport ==
    /\ stage = "ready"
    /\ \E d \in Docs, f \in Formats :
        last' = [Called("export", d) EXCEPT
                    !.format = f,
                    !.raised = export_chat(history, d, f).raised,
                    !.out = export_chat(history, d, f).out]
    /\ UNCHANGED <<stage, corrupted, ncalls>>
    /\ UNCHANGED <<history, files, backups, clock>>
    /\ UNCHANGED threadVars
    /\ UNCHANGED engineVars

NextExport == SExport

SpecExport == ExportInit /\ [][NextExport]_vars

\* ------------------------------------------------------------------------
\* Part 5: the engine called by one caller, call by call, across restarts
\* ------------------------------------------------------------------------

\* The texts of this part: those of Part 2 and one of more chunks.
LifeTexts == Texts \cup {<<"x", "y", "z", "x">>}

\* The k search is called with.
Ks == 1..TOP_K_RESULTS

embed_query_zero(isFitted, vocab, q) ==
    [raised |-> "none", vector |-> Transform(vocab, q)]

\* LightweightEmbeddings.embed_query: `if not self.is_fitted: raise ValueError`
embed_query(isFitted, vocab, q) ==
    IF ~isFitted THEN [raised |-> "ValueError", vector |-> <<>>]
    ELSE [raised |-> "none", vector |-> Transform(vocab, q)]

\* What the engine's calls of this part leave alone.
lifeLocals == <<epc, earg, loc, eres, snap, stage, corrupted, ncalls>>

\* process_document(file, filename) as one step: what it raises inside its try
\* block ("none" when it succeeds), without I/O errors
IngestCause(x) ==
    IF x = <<>> THEN "load_document"
    ELSE IF text_splitter(x) = <<>> THEN "split_text"
    ELSE IF ~fitted /\ FitVocabulary(text_splitter(x)) = {} THEN "create_embeddings"
    ELSE "none"

create_embeddings_extends(old, vocab, chunks) ==
    [vectors |-> old.vectors \o TransformAll(vocab, chunks),
     texts |-> old.texts \o chunks]

\* create_embeddings(chunks) with the vectorizer's vocabulary after
\* embed_documents: self.vectors = vectors; self.texts = chunks replace what
\* the store held (old); the dictionary of both is returned
create_embeddings(old, vocab, chunks) ==
    [vectors |-> TransformAll(vocab, chunks), texts |-> chunks]

LIngest ==
    /\ ecalls < MaxLifeCalls
    /\ \E d \in Docs, x \in LifeTexts :
        LET chunks == text_splitter(x)
            v == IF fitted THEN vocabulary ELSE FitVocabulary(chunks)
            store == create_embeddings(cache, v, chunks)
            cause == IngestCause(x)
        IN /\ last' = [Called("ingest", d) EXCEPT
                          !.text = x, !.kind = IF cause = "none" THEN "success" ELSE "error",
                          !.again = /\ lifecycle[d] = "Deleted"
                                    /\ last.built[d].store # NoStore
                                    /\ last.built[d].text = x,
                          !.built = IF cause = "none"
                                    THEN [last.built EXCEPT ![d] =
                                             [text |-> x, vocab |-> v, store |-> store]]
                                    ELSE last.built]
           /\ IF cause = "none"
              THEN /\ upload' = [upload EXCEPT ![d] = File(x)]
                   /\ mtime' = [mtime EXCEPT ![d] = ecalls + 1]
                   /\ vocabulary' = v
                   /\ fitted' = TRUE
                   /\ nfits' = IF fitted THEN nfits ELSE nfits + 1
                   /\ cache' = store
                   /\ vs' = [vs EXCEPT ![d] = [dir |-> TRUE, pkl |-> File(Pickle(store))]]
                   /\ lifecycle' = [lifecycle EXCEPT ![d] = "Indexed"]
              ELSE /\ upload' = [upload EXCEPT ![d] = Absent]
                   /\ mtime' = [mtime EXCEPT ![d] = 0]
                   /\ UNCHANGED <<vocabulary, fitted, nfits, cache, vs, lifecycle>>
    /\ ecalls' = ecalls + 1
    /\ UNCHANGED <<history, files, backups, clock>>
    /\ UNCHANGED lifeLocals
    /\ UNCHANGED threadVars

\* delete_pdf(pdf_name) as one step, without I/O errors
LRemove ==
    /\ ecalls < MaxLifeCalls
    /\ \E d \in Docs :
        /\ last' = [Called("remove", d) EXCEPT !.kind = "True"]
        /\ upload' = [upload EXCEPT ![d] = Absent]
        /\ mtime' = [mtime EXCEPT ![d] = 0]
        /\ vs' = [vs EXCEPT ![d] = NoDir]
        /\ clear_history(d, TRUE, TRUE)
        /\ lifecycle' = [lifecycle EXCEPT ![d] = "Deleted"]
    /\ ecalls' = ecalls + 1
    /\ UNCHANGED <<vocabulary, fitted, nfits, cache>>
    /\ UNCHANGED lifeLocals
    /\ UNCHANGED threadVars

\* list_available_documents: one entry per raw file of the upload directory,
\* sorted(docs, key=upload_date, reverse=True); no two staged files have the
\* same st_mtime here
ListEntry(d) ==
    [pdf_name |-> d, upload_date |-> mtime[d],
     has_vectorstore |-> validate_vectorstore(vs[d])]

list_available_documents ==
    LET staged == {d \in Docs : upload[d].exists}
        before(d, e) == mtime[d] > mtime[e]
        place(d) == 1 + Cardinality({e \in staged : before(e, d)})
    IN [r \in 1..Cardinality(staged) |->
            ListEntry(CHOOSE d \in staged : place(d) = r)]

LList ==
    /\ ecalls < MaxLifeCalls
    /\ last' = [Called("list", None) EXCEPT !.listing = list_available_documents]
    /\ ecalls' = ecalls + 1
    /\ UNCHANGED <<upload, vs, fitted, vocabulary, cache, lifecycle, nfits, mtime>>
    /\ UNCHANGED <<history, files, backups, clock>>
    /\ UNCHANGED lifeLocals
    /\ UNCHANGED threadVars

\* vector_store.search(question, load_vectorstore(d), k): RuntimeError when
\* embed_query or cosine_similarity raises
LSearch ==
    /\ ecalls < MaxLifeCalls
    /\ \E d \in Docs, q \in Questions, k \in Ks :
        LET store == load_vectorstore(vs[d])
            fails == SearchFails(fitted, vocabulary, store)
        IN /\ store # NoStore
           /\ last' = [Called("search", d) EXCEPT
                          !.text = q, !.k = k, !.wasFitted = fitted,
                          !.raised = IF fails THEN "RuntimeError" ELSE "none",
                          !.results = IF fails THEN <<>>
                                      ELSE search_results(vocabulary, q, store, k)]
    /\ ecalls' = ecalls + 1
    /\ UNCHANGED <<upload, vs, fitted, vocabulary, cache, lifecycle, nfits, mtime>>
    /\ UNCHANGED <<history, files, backups, clock>>
    /\ UNCHANGED lifeLocals
    /\ UNCHANGED threadVars

\* embeddings.embed_query(question)
LEmbedQuery ==
    /\ ecalls < MaxLifeCalls
    /\ \E q \in Questions :
        last' = [Called("embed_query", None) EXCEPT
                    !.text = q, !.wasFitted = fitted,
                    !.raised = embed_query(fitted, vocabulary, q).raised,
                    !.vector = embed_query(fitted, vocabulary, q).vector]
    /\ ecalls' = ecalls + 1
    /\ UNCHANGED <<upload, vs, fitted, vocabulary, cache, lifecycle, nfits, mtime>>
    /\ UNCHANGED <<history, files, backups, clock>>
    /\ UNCHANGED lifeLocals
    /\ UNCHANGED threadVars

\* The process ends and is started again: the directories and the durable
\* conversation file stay; the vectorizer is a new, unfitted one
\* (LightweightEmbeddings.__init__), the vector store's cache is empty and the
\* conversation store is loaded from its file.
LRestart ==
    /\ ecalls < MaxLifeCalls
    /\ last' = Called("restart", None)
    /\ fitted' = FALSE
    /\ vocabulary' = {}
    /\ cache' = NoStore
    /\ history' = load_history(files[storage_path])
    /\ ecalls' = ecalls + 1
    /\ UNCHANGED <<upload, vs, lifecycle, nfits, mtime>>
    /\ UNCHANGED <<files, backups, clock>>
    /\ UNCHANGED lifeLocals
    /\ UNCHANGED threadVars

NextLife ==
    \/ LIngest \/ LRemove \/ LList \/ LSearch \/ LEmbedQuery \/ LRestart

SpecLife == Init /\ [][NextLife]_vars

\* ------------------------------------------------------------------------
\* Part 6: split_text, for every text, chunk size and overlap
\* ------------------------------------------------------------------------

\* The texts that are split, the empty one among them.
SplitTexts == UNION {[1..n -> {"x", "y"}] : n \in 0..MaxTextLen}

\* A store is constructed with a chunk size and a smaller overlap, and is
\* handed a text.
SplitInit ==
    /\ StoreInit /\ EngineInit
    /\ stage = "ready" /\ corrupted = Absent
    /\ \E x \in SplitTexts, size \in 1..MaxChunkSize :
         \E overlap \in 0..(size - 1) :
            last = [NoLast EXCEPT !.text = x, !.size = size, !.overlap = overlap]

\* split_text(text)
SSplit ==
    /\ last.op = "none"
    /\ last' = [last EXCEPT
                   !.op = "split",
                   !.raised = split_text(last.text, last.size, last.overlap).raised,
                   !.chunks = split_text(last.text, last.size, last.overlap).chunks]
    /\ UNCHANGED <<stage, corrupted, ncalls>>
    /\ UNCHANGED <<history, files, backups, clock>>
    /\ UNCHANGED threadVars
    /\ UNCHANGED engineVars

NextSplit == SSplit

SpecSplit == SplitInit /\ [][NextSplit]_vars

\* ------------------------------------------------------------------------
\* Part 7: documents by file name
\* ------------------------------------------------------------------------

\* In this part the upload directory is kept per file name (stem and
\* extension) and the vector store per document name, the stem of the
\* sanitized file name; a stem is a sequence of characters.
Exts == {".pdf", ".txt"}

\* The names files are uploaded under: letters, a special character, spaces.
Stems == {<<"a">>, <<"a", "!">>, <<"!", "a">>, <<"a", " ", "a">>,
          <<"a", " ", " ", "a">>, <<" ", "a">>}

Filenames == [stem : Stems, ext : Exts]

\* re.sub(r'[^a-zA-Z0-9\s\-_]', '', name)
RECURSIVE RemoveSpecial(_)
RemoveSpecial(name) ==
    IF name = <<>> THEN <<>>
    ELSE IF Head(name) \in {"a", " ", "-", "_"}
         THEN <<Head(name)>> \o RemoveSpecial(Tail(name))
         ELSE RemoveSpecial(Tail(name))

\* re.sub(r'\s+', ' ', sanitized)
RECURSIVE CollapseSpaces(_)
CollapseSpaces(name) ==
    IF Len(name) < 2 THEN name
    ELSE IF name[1] = " " /\ name[2] = " " THEN CollapseSpaces(Tail(name))
    ELSE <<Head(name)>> \o CollapseSpaces(Tail(name))

\* .strip()
RECURSIVE Strip(_)
Strip(name) ==
    IF name = <<>> THEN name
    ELSE IF Head(name) = " " THEN Strip(Tail(name))
    ELSE IF name[Len(name)] = " " THEN Strip(SubSeq(name, 1, Len(name) - 1))
    ELSE name

\* sanitize_filename: the extension is split off and put back; the name loses
\* its special characters, runs of spaces become one underscore
sanitize_filename(f) ==
    LET stripped == Strip(CollapseSpaces(RemoveSpecial(f.stem)))
    IN [stem |-> [i \in 1..Len(stripped) |->
                     IF stripped[i] = " " THEN "_" ELSE stripped[i]],
        ext |-> f.ext]

SafeFilenames == {sanitize_filename(f) : f \in Filenames}

\* Path(safe_filename).stem
DocNames == {f.stem : f \in SafeFilenames}

NamesInit ==
    /\ StoreInit /\ SeqInit
    /\ upload = [f \in SafeFilenames |-> Absent]
    /\ mtime = [f \in SafeFilenames |-> 0]
    /\ vs = [d \in DocNames |-> NoDir]
    /\ lifecycle = [d \in DocNames |-> "Unindexed"]
    /\ fitted = FALSE
    /\ vocabulary = {}
    /\ cache = NoStore
    /\ epc = [t \in Threads |-> "idle"]
    /\ earg = [t \in Threads |-> [op |-> "none", pdf |-> None, text |-> <<>>]]
    /\ loc = [t \in Threads |-> NoLoc]
    /\ eres = [t \in Threads |-> NoRes]
    /\ ecalls = 0
    /\ snap = [t \in Threads |-> NoSnap]
    /\ nfits = 0

\* process_document(file, filename) as one step, without I/O errors
NIngest ==
    /\ ecalls < MaxNameCalls
    /\ \E f \in Filenames, x \in Texts :
        LET safe == sanitize_filename(f)
            d == safe.stem
            chunks == text_splitter(x)
            v == IF fitted THEN vocabulary ELSE FitVocabulary(chunks)
            store == create_embeddings(cache, v, chunks)
            cause == IngestCause(x)
        IN /\ last' = [Called("ingest", None) EXCEPT
                          !.filename = f, !.text = x,
                          !.kind = IF cause = "none" THEN "success" ELSE "error"]
           /\ IF cause = "none"
              THEN /\ upload' = [upload EXCEPT ![safe] = File(x)]
                   /\ mtime' = [mtime EXCEPT ![safe] = ecalls + 1]
                   /\ vocabulary' = v
                   /\ fitted' = TRUE
                   /\ nfits' = IF fitted THEN nfits ELSE nfits + 1
                   /\ cache' = store
                   /\ vs' = [vs EXCEPT ![d] = [dir |-> TRUE, pkl |-> File(Pickle(store))]]
                   /\ lifecycle' = [lifecycle EXCEPT ![d] = "Indexed"]
              ELSE /\ upload' = [upload EXCEPT ![safe] = Absent]
                   /\ mtime' = [mtime EXCEPT ![safe] = 0]
                   /\ UNCHANGED <<vocabulary, fitted, nfits, cache, vs, lifecycle>>
    /\ ecalls' = ecalls + 1
    /\ UNCHANGED <<history, files, backups, clock>>
    /\ UNCHANGED <<epc, earg, loc, eres, snap, stage, corrupted, ncalls>>
    /\ UNCHANGED threadVars

\* list_available_documents over the file names: one entry per raw file that
\* a glob pattern matches, pdf_name being doc_file.stem, sorted by upload_date
\* descending (no two staged files have the same st_mtime here)
ListedFile(f) ==
    [filename |-> f, pdf_name |-> f.stem, upload_date |-> mtime[f],
     has_vectorstore |-> validate_vectorstore(vs[f.stem])]

list_by_filename ==
    LET staged == {f \in SafeFilenames : upload[f].exists}
        place(f) == 1 + Cardinality({g \in staged : mtime[g] > mtime[f]})
    IN [r \in 1..Cardinality(staged) |->
            ListedFile(CHOOSE f \in staged : place(f) = r)]

NList ==
    /\ ecalls < MaxNameCalls
    /\ last' = [Called("list", None) EXCEPT !.listing = list_by_filename]
    /\ ecalls' = ecalls + 1
    /\ UNCHANGED <<upload, vs, fitted, vocabulary, cache, lifecycle, nfits, mtime>>
    /\ UNCHANGED <<history, files, backups, clock>>
    /\ UNCHANGED <<epc, earg, loc, eres, snap, stage, corrupted, ncalls>>
    /\ UNCHANGED threadVars

NextNames == NIngest \/ NList

SpecNames == NamesInit /\ [][NextNames]_vars

\* ------------------------------------------------------------------------
\* Properties of the conversation store
\* ------------------------------------------------------------------------

\* The durable conversation file.
Durable == files[storage_path]

\* How often a message with this content is in a message list.
Occurrences(msgs, content) ==
    Cardinality({i \in 1..Len(msgs) : msgs[i].content = content})

IsPrefix(s, r) == Len(s) <= Len(r) /\ SubSeq(r, 1, Len(s)) = s

\* C1: when the process is killed at any step of a mutation (before, during
\* or after the write of the temporary file and its rename), the durable file
\* is the complete file from before the mutation or the complete serialization
\* of the store after it, and never a truncated or partial text.
C1_CrashAtomic ==
    crashed =>
        /\ Durable \in {preDisk, File(Serialize(history))}
        /\ Durable.exists => Parse(Durable.text) # Corrupt

\* C1 witness: the process was killed while the temporary file was partly
\* written, and a durable file from an earlier mutation is in place.
C1_Witness ==
    /\ crashed
    /\ Durable.exists /\ Durable = preDisk
    /\ files[temp_path].exists
    /\ Parse(files[temp_path].text) = Corrupt
    /\ files[temp_path].text # <<>>

\* C2: once all concurrent add_message calls have returned, every message
\* whose call returned is exactly once in its document's log in memory and
\* exactly once in the durable file.
C2_NoLostAppend ==
    (\A t \in Threads : pc[t] = "idle") =>
        \A m \in okAdds :
            /\ Occurrences(MessagesOf(history, m[1]), m[2]) = 1
            /\ Durable.exists
            /\ Occurrences(MessagesOf(Parse(Durable.text), m[1]), m[2]) = 1

\* C2 witness: two add_message calls on one document, by different threads,
\* have both returned.
C2_Witness ==
    /\ \A t \in Threads : pc[t] = "idle" /\ arg[t].op = "add" /\ result[t] = Returned
    /\ \E d \in Docs : \A t \in Threads : arg[t].pdf = d
    /\ Cardinality(okAdds) = 2

\* C3: a get_statistics call that runs beside add_message or clear_history
\* returns the statistics of its document as they were before or after a
\* mutation, never a mixture (such as an entry whose messages and timestamps
\* belong to different moments).
C3_NoTornRead ==
    \A t \in Threads :
        (arg[t].op = "stats" /\ pc[t] = "idle" /\ result[t].kind = "returned")
            => result[t].stats \in {StatsOf(e) : e \in window[t]}

\* A step of clear_history that deletes the log of document d.
ClearsLog(d) ==
    \E t \in Threads :
        /\ pc[t] = "c_mutate" /\ pc'[t] = "s_open"
        /\ arg[t].pdf \in {d, None}

\* C4: a document's log only grows by appending: whatever step is taken, the
\* messages of the document before it are a prefix of the messages after it,
\* unless the step is clear_history's deletion, which leaves the document
\* without any log.
C4_AppendOnly ==
    [][\A d \in Docs :
          IF ClearsLog(d) THEN ~Has(history', d)
          ELSE IsPrefix(MessagesOf(history, d), MessagesOf(history', d))]_vars

\* C4 witness: a message was appended to a log that already held one.
C4_Witness ==
    \E d \in Docs :
        /\ Len(MessagesOf(history, d)) = 2
        /\ MessagesOf(history, d)[1].content # MessagesOf(history, d)[2].content

\* The step by which thread t's store call ends, the process alive.
Ends(t, from) == pc[t] \in from /\ pc'[t] = "idle" /\ ~crashed'

C13_PersistFailureSurfaces ==
    [][\A t \in Threads :
          /\ Ends(t, {"s_open", "s_write", "s_replace"}) =>
                /\ result'[t] = Raised
                /\ files'[storage_path] = preDisk
                /\ preDisk.exists => Parse(preDisk.text) # Corrupt
                /\ ~files'[temp_path].exists
          /\ Ends(t, {"ret"}) =>
                /\ result'[t] = Returned
                /\ files'[storage_path] = File(Serialize(history))]_vars

\* C13 witness: a call raised after the store had been persisted before; the
\* durable file still holds the earlier store, which the memory has left
\* behind, and there is no temporary file.
C13_Witness ==
    \E t \in Threads :
        /\ pc[t] = "idle" /\ result[t] = Raised /\ ~crashed
        /\ Durable.exists /\ Parse(Durable.text) # Corrupt
        /\ Parse(Durable.text) # history
        /\ ~files[temp_path].exists

\* C14: get_chat_history(d, limit) returns the last min(limit, n) messages of
\* d's n messages, in the log's order, when limit > 0, and the whole log when
\* limit <= 0; the log is in the order of the appends; a document without a
\* log gives the empty list.
C14_HistoryLimit ==
    last.op = "history" =>
        LET log == MessagesOf(history, last.pdf)
            n == Len(log)
            k == IF last.limit > 0 THEN Min(last.limit, n) ELSE n
        IN /\ last.ok
           /\ Len(last.msgs) = k
           /\ \A i \in 1..k : last.msgs[i] = log[n - k + i]
           /\ \A i \in 1..n : \A j \in 1..n : i < j => log[i].content < log[j].content
           /\ ~Has(history, last.pdf) => last.msgs = <<>>

\* C14 witness: a positive limit smaller than the log cut the oldest message off.
C14_Witness ==
    /\ last.op = "history" /\ last.limit = 1
    /\ Len(MessagesOf(history, last.pdf)) = 2
    /\ last.msgs = <<MessagesOf(history, last.pdf)[2]>>

\* C15: a clear_history(d) that returns has removed d's log and nothing else:
\* every other document's entry is as before, in memory and in the durable file.
C15_ClearFrame ==
    (last.op = "clear" /\ last.pdf # None /\ last.ok) =>
        /\ ~Has(history, last.pdf)
        /\ ~Has(Parse(Durable.text), last.pdf)
        /\ \A e \in Docs \ {last.pdf} :
              /\ EntryOf(history, e) = EntryOf(last.pre, e)
              /\ EntryOf(Parse(Durable.text), e)
                     = EntryOf(load_history(last.preDurable), e)

\* C16: get_all_pdfs() called right after clear_history(None) returns the
\* empty list, whatever was appended before.
C16_ClearAllEmpties ==
    (last.op = "get_all" /\ last.prevop = "clear" /\ last.prevpdf = None) =>
        last.names = <<>>

\* C16 witness: get_all_pdfs() follows a clear_history(None) that followed
\* appends (the backup taken by the clear holds their logs).
C16_Witness ==
    /\ last.op = "get_all" /\ last.prevop = "clear" /\ last.prevpdf = None
    /\ last.names = <<>>
    /\ \E b \in backups : Parse(b[2]) # Corrupt /\ Parse(b[2]) # <<>>

BackupFailed(t) ==
    /\ arg[t].op = "clear"
    /\ preDisk.exists
    /\ ~\E b \in backups : b[1] = clock - 1

\* C18: the backup step never ends a clear_history call; a clear whose backup
\* copy failed still removes the requested logs, persists the store and
\* returns without raising.
C18_BackupFailureIgnored ==
    [][\A t \in Threads :
          /\ pc[t] = "c_backup" => (pc'[t] \in {"c_backup", "c_mutate"} \/ crashed')
          /\ (Ends(t, {"ret"}) /\ BackupFailed(t)) =>
                /\ result'[t] = Returned
                /\ history' = ClearEffect(preStore, arg[t].pdf)
                /\ files'[storage_path] = File(Serialize(history'))]_vars

\* C18 witness: a clear of a document with a persisted log returned although
\* no backup was written.
C18_Witness ==
    \E t \in Threads :
        /\ pc[t] = "idle" /\ arg[t].op = "clear" /\ result[t] = Returned
        /\ arg[t].pdf # None /\ Has(preStore, arg[t].pdf)
        /\ preDisk.exists /\ backups = {}
        /\ ~Has(history, arg[t].pdf)
        /\ Durable = File(Serialize(history))

\* C27: get_statistics(d), called after any appends, clears and restarts,
\* returns the number of messages of d's log and the timestamps of its first
\* and of its last message; for a document without a log, 0 and no times.
C27_StatsMatchLog ==
    last.op = "stats" =>
        LET msgs == MessagesOf(history, last.pdf)
        IN /\ last.stats.total_messages = Len(msgs)
           /\ IF msgs = <<>>
              THEN /\ last.stats.first_chat = NoTime
                   /\ last.stats.last_chat = NoTime
              ELSE /\ last.stats.first_chat = msgs[1].timestamp
                   /\ last.stats.last_chat = msgs[Len(msgs)].timestamp

\* C27 witness: the statistics of a log of two messages, taken after a clear
\* of the other document.
C27_Witness ==
    /\ last.op = "stats" /\ last.prevop = "clear" /\ last.prevpdf # last.pdf
    /\ last.stats.total_messages = 2
    /\ last.stats.first_chat # last.stats.last_chat

\* C33: after every add_message or clear_history of the sequential caller,
\* also one whose _save failed, the in-memory store is what the durable file
\* holds, and a failed call has left the in-memory store as it was.
C33_MemoryIsDurable ==
    (stage = "ready" /\ last.op \in {"append", "clear"})
    => /\ history = load_history(Durable)
       /\ ~last.ok => history = last.pre

\* The lines of a text: its pieces between newlines.
RECURSIVE SplitLines(_)
SplitLines(s) ==
    IF \A i \in 1..Len(s) : s[i] # Newline THEN <<s>>
    ELSE LET k == CHOOSE i \in 1..Len(s) :
                     s[i] = Newline /\ \A j \in 1..(i - 1) : s[j] # Newline
         IN <<SubSeq(s, 1, k - 1)>> \o SplitLines(SubSeq(s, k + 1, Len(s)))

\* A reader of delimited text (RFC 4180): the records of a text, each the
\* sequence of its fields; inside a quoted field a doubled quote is a quote,
\* and commas and newlines are part of the field.
RECURSIVE CsvRead(_, _, _, _, _)
CsvRead(s, inq, field, rec, recs) ==
    IF s = <<>> THEN Append(recs, Append(rec, field))
    ELSE LET c == Head(s)
             r == Tail(s)
         IN IF inq
            THEN IF c = Quote
                 THEN IF r # <<>> /\ Head(r) = Quote
                      THEN CsvRead(Tail(r), TRUE, Append(field, Quote), rec, recs)
                      ELSE CsvRead(r, FALSE, field, rec, recs)
                 ELSE CsvRead(r, TRUE, Append(field, c), rec, recs)
            ELSE IF c = Quote THEN CsvRead(r, TRUE, field, rec, recs)
            ELSE IF c = Comma THEN CsvRead(r, FALSE, <<>>, Append(rec, field), recs)
            ELSE IF c = Newline
            THEN CsvRead(r, FALSE, <<>>, <<>>, Append(recs, Append(rec, field)))
            ELSE CsvRead(r, FALSE, Append(field, c), rec, recs)

\* The records a reader must get from the export of a log.
RecordsOf(msgs) ==
    <<(<<(<<"Role">>), (<<"Content">>), (<<"Timestamp">>)>>)>>
        \o [i \in 1..Len(msgs) |->
               <<(<<msgs[i].role>>), msgs[i].content,
                 (<<ToString(msgs[i].timestamp)>>)>>]

\* The newlines in the contents of a log.
RECURSIVE NewlinesIn(_)
NewlinesIn(msgs) ==
    IF msgs = <<>> THEN 0
    ELSE Count(Head(msgs).content, Newline) + NewlinesIn(Tail(msgs))

\* The last call was export_chat(d, "csv") on a document with a log.
CsvExported ==
    last.op = "export" /\ Lower(last.format) = "csv" /\ Has(history, last.pdf)

\* C25: export_chat with a format other than json and csv fails with an
\* exception (UnsupportedFormatError) instead of returning a string.
C25_UnsupportedFormatFails ==
    (last.op = "export" /\ Lower(last.format) \notin {"json", "csv"}) =>
        last.raised = "UnsupportedFormatError"

\* C26 as it was stated: the csv export of a log of n messages is n + 1 lines,
\* the header and then the row of each message in log order, whatever commas,
\* quotes and newlines the contents hold.
C26_CsvLines ==
    CsvExported =>
        LET msgs == MessagesOf(history, last.pdf)
            lines == SplitLines(last.out)
        IN /\ Len(lines) = Len(msgs) + 1
           /\ lines[1] = CsvHeader
           /\ \A i \in 1..Len(msgs) : lines[i + 1] = CsvRow(msgs[i])

\* C26: the csv export of a log of n messages holds n + 1 records, the header
\* and then one record per message in log order, whose content field is the
\* message's content whatever commas, quotes and newlines it holds. A newline
\* inside a content stays inside its quoted field, so the export has n + 1
\* lines plus one for every newline in the contents.
C26_CsvRecords ==
    CsvExported =>
        LET msgs == MessagesOf(history, last.pdf)
        IN /\ CsvRead(last.out, FALSE, <<>>, <<>>, <<>>) = RecordsOf(msgs)
           /\ Len(SplitLines(last.out)) = Len(msgs) + 1 + NewlinesIn(msgs)

\* C26 witness: the csv export of a log of two messages whose contents hold
\* a comma, quotes and a newline.
C26_Witness ==
    /\ CsvExported
    /\ Len(MessagesOf(history, last.pdf)) = 2
    /\ MessagesOf(history, last.pdf)[1].content = <<Quote, "h", Quote>>
    /\ MessagesOf(history, last.pdf)[2].content = <<Quote, Comma, Newline>>

\* ------------------------------------------------------------------------
\* Properties of the engine
\* ------------------------------------------------------------------------

\* The index persisted for a document: its vectors.pkl, if there is one.
PersistedIndex(v) == IF v.dir THEN v.pkl ELSE Absent

\* The document has a complete persisted index.
Complete(v) == v.dir /\ v.pkl.exists /\ Unpicklable(v.pkl.text)

\* The step by which thread t's call of `op` returns.
Returns(t, op) == earg[t].op = op /\ epc[t] # "idle" /\ epc'[t] = "idle"

\* Thread t's last call was `op` and it has returned.
Returned_(t, op) == earg[t].op = op /\ epc[t] = "idle"

\* The results of query that say the document is not indexed.
NotIndexedKinds == {"not_found", "load_failed"}

\* Two stored rows are equally similar to the query vector.
Tie(q, u, v) == ~CosLess(q, u, v) /\ ~CosLess(q, v, u)

\* C11: the chunks a query's search ranks come in non-increasing similarity,
\* and of two chunks with equal similarity the one stored first comes first.
C11_SearchOrder ==
    \A t \in Threads :
        (Returned_(t, "query") /\ eres[t].kind = "answer") =>
            LET store == load_vectorstore(vs[earg[t].pdf])
                q == Transform(vocabulary, earg[t].text)
                idx == top_indices(q, store.vectors, TOP_K_RESULTS)
            IN \A r \in 1..Len(idx) : \A s \in 1..Len(idx) :
                  r < s =>
                      /\ ~CosLess(q, store.vectors[idx[r]], store.vectors[idx[s]])
                      /\ Tie(q, store.vectors[idx[r]], store.vectors[idx[s]])
                             => idx[r] < idx[s]

\* C19: a query on a document for which no process_document call ever
\* succeeded (and that was not removed) returns a structured result with
\* confidence "low" and nothing retrieved, not the result of a raised
\* exception.
C19_NeverIngested ==
    \A t \in Threads :
        (Returned_(t, "query") /\ lifecycle[earg[t].pdf] = "Unindexed") =>
            /\ eres[t].kind \in NotIndexedKinds
            /\ eres[t].confidence = "low"
            /\ eres[t].context = <<>>

\* C19 witness: with another document indexed, a query on a document never
\* ingested returned the not-found result.
C19_Witness ==
    \E t \in Threads :
        /\ Returned_(t, "query") /\ lifecycle[earg[t].pdf] = "Unindexed"
        /\ eres[t] = NotFound
        /\ fitted
        /\ \E e \in Docs \ {earg[t].pdf} : lifecycle[e] = "Indexed" /\ Complete(vs[e])

C22_QueryReadOnly ==
    [][\A t \in Threads :
          /\ (earg[t].op = "query" /\ epc[t] # "idle") =>
                /\ vs' = vs
                /\ vocabulary' = vocabulary /\ fitted' = fitted
          /\ Returns(t, "query") => vs' = snap[t].vs]_vars

\* C22 witness: a query on a document with a two-chunk index returned an
\* answer holding retrieved chunks, while another document is indexed too.
C22_Witness ==
    \E t \in Threads :
        /\ Returned_(t, "query") /\ eres[t].kind = "answer"
        /\ eres[t].context # <<>>
        /\ Complete(vs[earg[t].pdf])
        /\ Len(Unpickle(vs[earg[t].pdf].pkl.text).texts) = 2
        /\ \E e \in Docs \ {earg[t].pdf} : Complete(vs[e])

\* C23: when a query returns the answer, the log of its document is the log
\* from before the query followed by two messages, the user's question and
\* then the assistant's answer with the confidence as metadata; the log of
\* every other document is unchanged, and the durable file holds the same.
C23_QueryAppendsTwo ==
    [][\A t \in Threads :
          (Returns(t, "query") /\ eres'[t].kind = "answer") =>
              LET d == earg[t].pdf
                  old == MessagesOf(snap[t].history, d)
                  new == MessagesOf(history', d)
              IN /\ Len(new) = Len(old) + 2
                 /\ SubSeq(new, 1, Len(old)) = old
                 /\ new[Len(old) + 1].role = "user"
                 /\ new[Len(old) + 1].content = earg[t].text
                 /\ new[Len(old) + 2].role = "assistant"
                 /\ new[Len(old) + 2].content = eres'[t].context
                 /\ new[Len(old) + 2].metadata = <<eres'[t].confidence>>
                 /\ \A e \in Docs \ {d} :
                       EntryOf(history', e) = EntryOf(snap[t].history, e)
                 /\ files'[storage_path].exists
                 /\ MessagesOf(Parse(files'[storage_path].text), d) = new]_vars

\* C23 witness: a second answered query on an Indexed document has returned:
\* its log holds four messages, and another document has a log of its own.
C23_Witness ==
    \E t \in Threads :
        /\ Returned_(t, "query") /\ eres[t].kind = "answer"
        /\ lifecycle[earg[t].pdf] = "Indexed"
        /\ Len(MessagesOf(history, earg[t].pdf)) = 4

C24_ListsEveryIndex ==
    last.op = "list" =>
        /\ \A d \in Docs :
              Complete(vs[d]) =>
                  \E r \in 1..Len(last.listing) : last.listing[r].pdf_name = d
        /\ \A r \in 1..Len(last.listing) : \A q \in 1..Len(last.listing) :
              r < q => last.listing[r].upload_date >= last.listing[q].upload_date

\* C28: embed_query on a vectorizer that was never fitted raises (ValueError,
\* "Vectorizer not fitted yet") and leaves the vectorizer unfitted, without a
\* vocabulary.
C28_UnfittedQueryRaises ==
    (last.op = "embed_query" /\ ~last.wasFitted) =>
        /\ last.raised = "ValueError"
        /\ last.vector = <<>>
        /\ ~fitted /\ vocabulary = {}

\* C28 witness: after a restart, with an index of the previous process on
\* disk, embed_query was called on the new, unfitted vectorizer.
C28_Witness ==
    /\ last.op = "embed_query" /\ ~last.wasFitted
    /\ last.prevop = "restart"
    /\ \E d \in Docs : Complete(vs[d])

\* C29: search with k >= 1 on an index of n chunks returns min(k, n) results,
\* each a stored chunk of its own (no chunk twice) paired with the similarity
\* of that chunk to the question.
C29_SearchCount ==
    (last.op = "search" /\ last.raised = "none") =>
        LET store == load_vectorstore(vs[last.pdf])
            n == Len(store.texts)
            q == Transform(vocabulary, last.text)
            m == Len(last.results)
        IN /\ m = Min(last.k, n)
           /\ \E idx \in [1..m -> 1..n] :
                 /\ \A i \in 1..m : \A j \in 1..m : i # j => idx[i] # idx[j]
                 /\ \A i \in 1..m :
                       /\ last.results[i].page_content = store.texts[idx[i]]
                       /\ last.results[i].score
                              = cosine_similarity(q, store.vectors[idx[i]])

\* C29 witness: a search with k = 2 on an index of three chunks returned two
\* results.
C29_Witness ==
    /\ last.op = "search" /\ last.raised = "none"
    /\ last.k = 2 /\ Len(last.results) = 2
    /\ Len(load_vectorstore(vs[last.pdf]).texts) = 3

\* The chunks lie in the text one after the other and leave no unit out: each
\* is the text's part at some offset, starts no later than right after the
\* part covered so far (the first `reach` units), and the last one ends the text.
RECURSIVE CoveredFrom(_, _, _)
CoveredFrom(text, chunks, reach) ==
    IF chunks = <<>> THEN reach = Len(text)
    ELSE LET c == Head(chunks)
         IN \E o \in 1..(reach + 1) :
               /\ o + Len(c) - 1 <= Len(text)
               /\ o + Len(c) - 1 >= reach
               /\ SubSeq(text, o, o + Len(c) - 1) = c
               /\ CoveredFrom(text, Tail(chunks), o + Len(c) - 1)

ScoresOf(results) == [r \in 1..Len(results) |-> results[r].score]

C34_IndexedStaysQueryable ==
    last.op = "search"
    => LET store == load_vectorstore(vs[last.pdf])
       IN /\ last.wasFitted
          /\ \A c \in 1..Len(store.vectors) :
                Len(store.vectors[c]) = Cardinality(vocabulary)
          /\ last.raised = "none"

\* C35: once delete_pdf(d) has returned and every call that was in flight has
\* finished, the conversation store holds no log of d, in memory or in its
\* file, unless a later call ingested d or appended to its log; a query of d
\* that overlaps the delete_pdf does not bring the log back. (A query begun
\* after the delete_pdf returned finds no index and appends nothing, and
\* lifecycle[d] is "Deleted" while no process_document has returned since.)
C35_RemovedLogStaysGone ==
    \A d \in Docs :
        (/\ \A t \in Threads : epc[t] = "idle"
         /\ lifecycle[d] = "Deleted")
        => /\ ~Has(history, d)
           /\ ~Has(load_history(Durable), d)

\* C36: under concurrent queries of one document, when all calls have
\* finished every user question in the document's log is directly followed by
\* an assistant message, and that message is the answer to this question
\* (the search result of the question on the document's index, while that
\* index is still persisted).
C36_PairsNotInterleaved ==
    (\A t \in Threads : epc[t] = "idle")
    => \A d \in Docs :
          LET msgs == MessagesOf(history, d)
          IN \A i \in 1..Len(msgs) :
                msgs[i].role = "user"
                => /\ i < Len(msgs)
                   /\ msgs[i + 1].role = "assistant"
                   /\ Complete(vs[d])
                      => msgs[i + 1].content
                           = search(vocabulary, msgs[i].content,
                                    load_vectorstore(vs[d]), TOP_K_RESULTS)

\* C37: a query of a document that had a complete persisted index when the
\* query began, run beside a re-ingest of that document, returns an answer
\* computed from the old complete index or from a new complete one (the index
\* of some ingested text); it never returns the not-indexed or failed-to-load
\* result or an error.
C37_QueryBesideReingest ==
    [][\A t \in Threads :
          (Returns(t, "query") /\ Complete(snap[t].vs[earg[t].pdf]))
          => /\ eres'[t].kind = "answer"
             /\ \/ eres'[t].context =
                       search(vocabulary, earg[t].text,
                              load_vectorstore(snap[t].vs[earg[t].pdf]),
                              TOP_K_RESULTS)
                \/ \E x \in GoodTexts :
                       eres'[t].context =
                           search(vocabulary, earg[t].text,
                                  create_embeddings(NoStore, vocabulary,
                                                    text_splitter(x)),
                                  TOP_K_RESULTS)]_vars

\* C38: after any sequence of process_document and delete_pdf calls, failed
\* re-ingests among them, every document with a persisted index has its raw
\* file staged in the upload directory and is an entry of
\* list_available_documents.
C38_IndexHasRawFile ==
    \A d \in Docs :
        Complete(vs[d])
        => /\ upload[d].exists
           /\ \E r \in 1..Len(list_available_documents) :
                 list_available_documents[r].pdf_name = d

\* C39: list_available_documents never returns two entries with the same
\* document name, whatever files were ingested, also files whose names differ
\* only in their extension or in characters that sanitize_filename removes.
C39_ListedIdsDistinct ==
    last.op = "list"
    => \A r \in 1..Len(last.listing) : \A q \in 1..Len(last.listing) :
          r # q => last.listing[r].pdf_name # last.listing[q].pdf_name

\* C5: a process_document call that fails, at whatever step, leaves the
\* document's persisted index exactly as it was when the call began: absent,
\* or the previous complete index.
C5_FailedIngestKeepsIndex ==
    [][\A t \in Threads :
          (Returns(t, "ingest") /\ eres'[t].kind = "error")
              => PersistedIndex(vs'[earg[t].pdf])
                     = PersistedIndex(snap[t].vs[earg[t].pdf])]_vars

\* C6: when process_document calls run concurrently on an unfitted
\* vectorizer, the vocabulary is fitted once, and every complete persisted
\* index holds vectors computed against that one vocabulary.
C6_FitOnce ==
    /\ nfits <= 1
    /\ \A d \in Docs :
          Complete(vs[d]) =>
              LET store == Unpickle(vs[d].pkl.text)
              IN store.vectors = TransformAll(vocabulary, store.texts)

\* C7: a query on a document whose last successful call was process_document
\* (no delete_pdf since) returns ranked chunks and not the not-indexed
\* result; a query on a document never ingested, or removed since, returns
\* the not-indexed low-confidence result.
C7_Lifecycle ==
    \A t \in Threads :
        Returned_(t, "query") =>
            /\ lifecycle[earg[t].pdf] = "Indexed" =>
                  /\ eres[t].kind \notin NotIndexedKinds
                  /\ eres[t].cause # "search"
            /\ lifecycle[earg[t].pdf] \in {"Unindexed", "Deleted"} =>
                  /\ eres[t].kind \in NotIndexedKinds
                  /\ eres[t].confidence = "low"

\* C8: a query that runs beside delete_pdf of its document returns either the
\* answer computed from the complete index persisted when the query began, or
\* the structured not-indexed low-confidence result; it never ends in the
\* error result of a raised exception and never answers from anything else.
C8_RemoveSafe ==
    [][\A t \in Threads :
          Returns(t, "query") =>
              \/ /\ eres'[t].kind \in NotIndexedKinds
                 /\ eres'[t].confidence = "low"
                 /\ eres'[t].context = <<>>
              \/ /\ eres'[t].kind = "answer"
                 /\ Complete(snap[t].vs[earg[t].pdf])
                 /\ eres'[t].context =
                        search(vocabulary, earg[t].text,
                               load_vectorstore(snap[t].vs[earg[t].pdf]),
                               TOP_K_RESULTS)]_vars

\* C8 witness: a query returned an answer while a delete_pdf of the same
\* document, begun meanwhile, has unlinked the index and not yet returned.
C8_Witness ==
    \E t \in Threads, u \in Threads :
        /\ Returned_(t, "query") /\ eres[t].kind = "answer"
        /\ earg[u].op = "remove" /\ epc[u] \in {"d_rmdir", "d_clear"}
        /\ earg[u].pdf = earg[t].pdf
        /\ ~vs[earg[t].pdf].pkl.exists

\* The document has nothing: no staged file, no index directory, no log.
AbsentIn(s, d) == ~s.upload[d].exists /\ s.vs[d] = NoDir /\ ~Has(s.history, d)

\* What delete_pdf must leave of document d when it returns True, and what it
\* does on a document that was absent when it began: it fails only if the
\* conversation store cannot be persisted, and it changes no staged file, no
\* index and no log.
RemoveEffect(t) ==
    LET d == earg[t].pdf
    IN /\ eres'[t].kind = "True" =>
              /\ vs'[d] = NoDir /\ ~upload'[d].exists
              /\ ~Has(history', d)
              /\ files'[storage_path].exists
              /\ ~Has(Parse(files'[storage_path].text), d)
       /\ AbsentIn(snap[t], d) =>
              /\ eres'[t].kind = "True" \/ eres'[t].cause = "clear_history"
              /\ upload' = snap[t].upload /\ vs' = snap[t].vs
              /\ history' = snap[t].history

C10_VocabularyFixed ==
    [][/\ fitted => (fitted' /\ vocabulary' = vocabulary)
       /\ \A d \in Docs :
             Complete(vs'[d]) =>
                 LET store == Unpickle(vs'[d].pkl.text)
                 IN store.vectors = TransformAll(vocabulary', store.texts)]_vars

\* C10 witness: the vectorizer is fitted and a complete index was persisted
\* for a text with terms outside the vocabulary.
C10_Witness ==
    /\ fitted
    /\ \E d \in Docs :
          /\ Complete(vs[d])
          /\ ~(FitVocabulary(Unpickle(vs[d].pkl.text).texts) \subseteq vocabulary)

====
